---- MODULE Spec2Model ----
(***************************************************************************)
(* Obsidian-Code-Styler: the codeblock segmenter (CodeblockParsing.ts),    *)
(* the external reference fetcher (ReferenceParsing.ts) and the reference  *)
(* cache (Referencing.ts).                                                 *)
(*                                                                         *)
(* Text is modelled as a sequence of one-character strings, a document as  *)
(* a sequence of such lines.  The specifications of the module:           *)
(*   SpecSegmenter  parseCodeblockSource on bounded line sequences         *)
(*   SpecSections   the same, one call of parseCodeblockSection per step   *)
(*   SpecFetch      _fetchExtRef on bounded ExtRefParams                   *)
(*   Spec           the reference cache: renders, garbage collection and   *)
(*                  refreshes interleaving at their await points           *)
(*   SpecGc         garbage collection of caches that renders left         *)
(*   SpecResolve    the path branch of parseRefParams on local paths       *)
(*   SpecLimits     getLineIdentifier and getLineLimits                    *)
(*   SpecIds        parseRefParams on external paths                       *)
(*   SpecParameters parseCodeblock and parseCodeblockParameterString on    *)
(*                  bounded parameter lines                                *)
(***************************************************************************)
EXTENDS Integers, Sequences, FiniteSets, TLC

VARIABLES
    \* ---- segmenter (parseCodeblockSource)
    codeSection,    \* the input line sequence
    admonitions,    \* "obsidian-admonition" in plugins
    codeblocks,     \* the emitted groups
    nested,         \* the reported nested flag
    segpc,          \* "ready" | "done" ("idle" in the other specifications)
    \* ---- fetcher (_fetchExtRef)
    fparams,        \* the ExtRefParams handed to _fetchExtRef
    fsent,          \* the requests sent so far: [to, headers]
    fpc,            \* "start" | "second" | "done" | "failed" (or "idle")
    \* ---- reference cache (Referencing.ts)
    docs,           \* the vault: document -> [exists, blocks]
    files,          \* content files of the plugin, by id
    metas,          \* metadata files of the plugin, by id
    cacheFile,      \* the persisted cache index
    tasks,          \* the calls in flight
    calls,          \* calls started so far
    signals,        \* calls of plugin.renderReadingView
    \* ---- pure functions of the parsers, applied to one input
    fnArgs,         \* the arguments of the call
    fnResult,       \* the value returned or the error thrown
    fnpc            \* "ready" | "done" ("idle" in the other specifications)

segVars == <<codeSection, admonitions, codeblocks, nested, segpc>>
fetchVars == <<fparams, fsent, fpc>>
cacheVars == <<docs, files, metas, cacheFile, tasks, calls, signals>>
fnVars == <<fnArgs, fnResult, fnpc>>
vars == <<segVars, fetchVars, cacheVars, fnVars>>

\* ------------------------------------------------------------------------
\* Generic helpers (JavaScript array and string primitives)
\* ------------------------------------------------------------------------

Min(a, b) == IF a < b THEN a ELSE b

\* Array.prototype.slice(b, e) for 0-based b, e >= 0 (end exclusive, clamped).
Slice(s, b, e) ==
    LET lo == Min(b, Len(s))
        hi == Min(e, Len(s))
    IN  IF hi <= lo THEN <<>> ELSE SubSeq(s, lo + 1, hi)

\* Array.prototype.slice(b) for 0-based b >= 0.
SliceFrom(s, b) == Slice(s, b, Len(s))

\* Array.prototype.includes
Includes(s, x) == \E i \in 1..Len(s) : s[i] = x

\* Array.prototype.findIndex over a predicate given as the set of matching
\* positions (1-based); the result is 0-based, -1 when nothing matches.
FirstIndex(hits) == IF hits = {} THEN -1 ELSE (CHOOSE i \in hits : \A j \in hits : i <= j) - 1

\* ---- strings as sequences of characters (String.prototype methods)

StartsWith(s, prefix) ==
    Len(s) >= Len(prefix) /\ SubSeq(s, 1, Len(prefix)) = prefix

\* String.prototype.substring(n)
Substring(s, n) == SubSeq(s, n + 1, Len(s))

\* String.prototype.trim for the space character
RECURSIVE Trim(_)
Trim(s) ==
    IF s = <<>> THEN s
    ELSE IF Head(s) = " " THEN Trim(Tail(s))
    ELSE IF s[Len(s)] = " " THEN Trim(SubSeq(s, 1, Len(s) - 1))
    ELSE s

\* String.prototype.split(sep) for a one-character separator
RECURSIVE Split(_, _)
Split(s, sep) ==
    LET hits == {i \in 1..Len(s) : s[i] = sep} IN
    IF hits = {} THEN <<s>>
    ELSE LET i == FirstIndex(hits) + 1
         IN  <<SubSeq(s, 1, i - 1)>> \o Split(SubSeq(s, i + 1, Len(s)), sep)

\* Array.prototype.join(sep)
RECURSIVE Join(_, _)
Join(parts, sep) ==
    IF parts = <<>> THEN <<>>
    ELSE IF Len(parts) = 1 THEN parts[1]
    ELSE parts[1] \o sep \o Join(Tail(parts), sep)

\* ------------------------------------------------------------------------
\* Segmenter: src/src/Parsing/CodeblockParsing.ts
\* ------------------------------------------------------------------------

\* The backtick character (written BT in the comments below).
BT == "bt"

FenceChars == {BT, "~"}

\* Length of the longest prefix matched by  \s*(?:>\s*)*  : any run of
\* whitespace and ">" characters.
PrefixLen(line) ==
    LET stops == {i \in 1..Len(line) : line[i] \notin {" ", ">"}}
    IN  IF stops = {} THEN Len(line) ELSE FirstIndex(stops)

\* Length of the run of character c that starts at 1-based position p.
RunLen(line, p, c) ==
    LET stops == {i \in p..Len(line) : line[i] # c}
    IN  IF stops = {} THEN Len(line) - p + 1 ELSE (FirstIndex(stops) + 1) - p

\* The fence run matched by (BT{3,}|~{3,}) right after the blockquote prefix:
\* <<>> when the line does not match.
FenceRun(line) ==
    LET p == PrefixLen(line)
    IN  IF p < Len(line) /\ line[p + 1] \in FenceChars /\ RunLen(line, p + 1, line[p + 1]) >= 3
        THEN SubSeq(line, p + 1, p + RunLen(line, p + 1, line[p + 1]))
        ELSE <<>>

\* String.prototype.indexOf(needle, from) with 0-based from; -1 when absent.
IndexOfFrom(line, needle, from) ==
    FirstIndex({i \in (from + 1)..(Len(line) - Len(needle) + 1) :
                    SubSeq(line, i, i + Len(needle) - 1) = needle})

Contains(s, needle) == IndexOfFrom(s, needle, 0) # -1

\* The decimal digits, and Number / parseInt of a string of digits.
Digits == <<"0", "1", "2", "3", "4", "5", "6", "7", "8", "9">>
IsDigit(c) == \E i \in 1..10 : Digits[i] = c
DigitVal(c) == (CHOOSE i \in 1..10 : Digits[i] = c) - 1
RECURSIVE ParseNat(_)
ParseNat(s) ==
    IF s = <<>> THEN 0 ELSE 10 * ParseNat(SubSeq(s, 1, Len(s) - 1)) + DigitVal(s[Len(s)])
AllDigits(s) == \A i \in 1..Len(s) : IsDigit(s[i])

\* testOpeningLine: the fence run when the line opens a codeblock (the same
\* run does not occur again later on the line), "" (<<>>) otherwise.
testOpeningLine(codeblockLine) ==
    LET run == FenceRun(codeblockLine)
    IN  IF run = <<>> THEN <<>>
        ELSE IF IndexOfFrom(codeblockLine, run, PrefixLen(codeblockLine) + Len(run) + 1) = -1
             THEN run
             ELSE <<>>

\* getOpeningLine as the 0-based index of the first opening line, -1 if none
\* (codeblockLines.find followed by codeSection.indexOf of the found line).
getOpeningLine(codeblockLines) ==
    FirstIndex({i \in 1..Len(codeblockLines) : testOpeningLine(codeblockLines[i]) # <<>>})

\* The closing-fence test of parseCodeblockSection:
\*   ^\s*(?:>\s*)*${openDelimiter}(?!${openDelimiter[0]})$
IsClosingLine(line, openDelimiter) ==
    SubSeq(line, PrefixLen(line) + 1, Len(line)) = openDelimiter

\* The admonition test  ^\s*(?:>\s*)*(?:BT{3,}|~{3,}) *ad-.*$
IsAdmonitionLine(line) ==
    LET run == FenceRun(line)
        q == PrefixLen(line) + Len(run) + 1
        n == IF q <= Len(line) THEN RunLen(line, q, " ") ELSE 0
    IN  /\ run # <<>>
        /\ Len(line) >= q + n + 2
        /\ SubSeq(line, q + n, q + n + 2) = <<"a", "d", "-">>

\* closeDelimiterIndex: findIndex of the closing fence in the lines after
\* the opening one (0-based within that slice, -1 when there is none).
closeDelimiterIndex(sec, openDelimiterIndex) ==
    LET after == SliceFrom(sec, openDelimiterIndex + 1)
        openDelimiter == FenceRun(sec[openDelimiterIndex + 1])
    IN  FirstIndex({i \in 1..Len(after) : IsClosingLine(after[i], openDelimiter)})

\* The emitted group: codeSection.slice(0, openDelimiterIndex + 2 + closeDelimiterIndex)
GroupSlice(sec, open, close) == Slice(sec, 0, open + 2 + close)

\* The admonition body: codeSection.slice(open + 1, open + 1 + close)
BodySlice(sec, open, close) == Slice(sec, open + 1, open + 1 + close)

\* A remainder that starts one line late, skipping the line after the
\* closing fence.
RestSlice_m(sec, open, close) == SliceFrom(sec, open + 1 + close + 2)

\* A remainder that starts at the closing fence instead of after it (at the
\* opening fence when there is no closing one).
RestSlice_n(sec, open, close) == SliceFrom(sec, open + 1 + close)

\* The remainder: codeSection.slice(open + 1 + close + 1)
RestSlice(sec, open, close) == SliceFrom(sec, open + 1 + close + 1)

RECURSIVE parseCodeblockSection(_, _)
parseCodeblockSection(sec, adm) ==
    IF Len(sec) = 0 THEN <<>>
    ELSE LET open == getOpeningLine(sec) IN
         IF open = -1 THEN <<>>
         ELSE LET close == closeDelimiterIndex(sec, open)
                  here == IF ~adm \/ ~IsAdmonitionLine(sec[open + 1])
                          THEN <<GroupSlice(sec, open, close)>>
                          ELSE parseCodeblockSection(BodySlice(sec, open, close), adm)
              IN  here \o parseCodeblockSection(RestSlice(sec, open, close), adm)

arraysEqual(array1, array2) ==
    /\ Len(array1) = Len(array2)
    /\ \A i \in 1..Len(array1) : Includes(array2, array1[i])

nestedOf(sec, blocks) ==
    IF Len(blocks) > 0 THEN ~arraysEqual(sec, blocks[1]) ELSE TRUE

\* ---- the lines the segmenter is exercised on
TextLine    == <<"a">>
Fence3      == <<BT, BT, BT>>
Fence3Lang  == <<BT, BT, BT, "a">>
Fence4      == <<BT, BT, BT, BT>>
Tilde3      == <<"~", "~", "~">>
QuoteFence3 == <<">", " ", BT, BT, BT>>
InlineFence == <<BT, BT, BT, "a", BT, BT, BT>>
AdFence     == <<BT, BT, BT, "a", "d", "-", "a">>

LineSet == {TextLine, Fence3, Fence3Lang, Fence4, Tilde3, QuoteFence3, InlineFence, AdFence}

MaxLines == 4

SeqsUpTo(S, n) == UNION {[1..k -> S] : k \in 0..n}

SegInit ==
    /\ codeSection \in SeqsUpTo(LineSet, MaxLines)
    /\ admonitions \in BOOLEAN
    /\ codeblocks = <<>>
    /\ nested = TRUE
    /\ segpc = "ready"

SegIdle ==
    /\ codeSection = <<>>
    /\ admonitions = FALSE
    /\ codeblocks = <<>>
    /\ nested = TRUE
    /\ segpc = "idle"

parseCodeblockSource ==
    /\ segpc = "ready"
    /\ codeblocks' = parseCodeblockSection(codeSection, admonitions)
    /\ nested' = nestedOf(codeSection, codeblocks')
    /\ segpc' = "done"
    /\ UNCHANGED <<fnVars, codeSection, admonitions, fetchVars, cacheVars>>

\* ------------------------------------------------------------------------
\* Fetcher: src/src/Parsing/ReferenceParsing.ts
\* ------------------------------------------------------------------------

\* Object spread {...a, ...b}: keys of b replace keys of a.
Spread(a, b) ==
    [k \in DOMAIN a \cup DOMAIN b |-> IF k \in DOMAIN b THEN b[k] ELSE a[k]]

NoHeaders == [k \in {} |-> ""]

GitHubRequired ==
    [k \in {"Accept", "X-GitHub-Api-Version", "User-Agent"} |->
        CASE k = "Accept" -> "application/vnd.github+json"
          [] k = "X-GitHub-Api-Version" -> "2022-11-28"
          [] k = "User-Agent" -> "Obsidian-Code-Styler"]

GenericRequired ==
    [k \in {"Accept", "Content-Type"} |-> "application/json"]

IsGitHubHost(hostname) == hostname \in {"github.com", "raw.githubusercontent.com"}

\* fetchGitHubSCM: HEADERS = {Accept, X-GitHub-Api-Version, User-Agent, ...params.headers}
GitHubHeaders(headers) == Spread(GitHubRequired, headers)

\* _fetchExtRef: HEADERS = {Accept, Content-Type, ...params.headers}
GenericHeaders(headers) == Spread(GenericRequired, headers)

\* The requests one _fetchExtRef call sends, in order, with the headers each
\* carries.  request(url) with a bare URL sends no headers of the plugin.
RequestPlan(hostname, headers) ==
    IF IsGitHubHost(hostname)
    THEN << [to |-> "github-contents", headers |-> GitHubHeaders(headers)],
            [to |-> "github-commits", headers |-> GitHubHeaders(headers)] >>
    ELSE IF hostname = "gitlab.com"
    THEN << [to |-> "gitlab-blob", headers |-> GenericHeaders(headers)],
            [to |-> "gitlab-raw", headers |-> NoHeaders] >>
    ELSE << [to |-> "raw", headers |-> NoHeaders] >>

HeaderNames == {"Accept", "X-GitHub-Api-Version", "Authorization"}
HeaderValues == {"text/html", "2022-11-28"}
HeaderMaps == UNION {[S -> HeaderValues] : S \in SUBSET HeaderNames}
Hostnames == {"github.com", "raw.githubusercontent.com", "gitlab.com", "bitbucket.org", "example.com"}

FetchInit ==
    /\ fparams \in [hostname : Hostnames, headers : HeaderMaps]
    /\ fsent = <<>>
    /\ fpc = "start"

FetchIdle ==
    /\ fparams = [hostname |-> "example.com", headers |-> NoHeaders]
    /\ fsent = <<>>
    /\ fpc = "idle"

\* One network request of _fetchExtRef succeeds: the next one is sent, or the
\* ExtRef is returned.
FetchRequestOk ==
    /\ fpc \in {"start", "second"}
    /\ LET plan == RequestPlan(fparams.hostname, fparams.headers)
       IN  /\ fsent' = Append(fsent, plan[Len(fsent) + 1])
           /\ fpc' = IF Len(fsent') < Len(plan) THEN "second" ELSE "done"
    /\ UNCHANGED <<fnVars, fparams, segVars, cacheVars>>

\* One network request fails: the catch wraps the cause and rethrows.
FetchRequestFails ==
    /\ fpc \in {"start", "second"}
    /\ LET plan == RequestPlan(fparams.hostname, fparams.headers)
       IN  fsent' = Append(fsent, plan[Len(fsent) + 1])
    /\ fpc' = "failed"
    /\ UNCHANGED <<fnVars, fparams, segVars, cacheVars>>

\* ------------------------------------------------------------------------
\* Reference cache: src/src/Referencing.ts
\* ------------------------------------------------------------------------

\* ---- the vault: documents, paths, reference blocks

Docs == {"a.md", "b.md"}
NoDoc == "-"

\* A path of a reference block as new URL(path) sees it: the scheme ("" when
\* the string has none), the hostname, the segments of the pathname (each a
\* sequence of characters) and the extension of the file name.
EmptyPath == [scheme |-> "", hostname |-> "", segs |-> <<>>, ext |-> ""]
UrlX == [scheme |-> "https", hostname |-> "example.com", segs |-> << <<"f">> >>, ext |-> "py"]
UrlY == [scheme |-> "https", hostname |-> "github.com",
         segs |-> << <<"o">>, <<"r">>, <<"m">>, <<"f">> >>, ext |-> "py"]
LocalPath == [scheme |-> "", hostname |-> "", segs |-> << <<".">>, <<"f">> >>, ext |-> "py"]

Urls == {UrlX, UrlY}

\* A line identifier of a reference block (start, end): absent or a number.
Absent == [t |-> "undefined", n |-> 0]
Num(n) == [t |-> "number", n |-> n]

\* A reference block body as parseYaml returns it.
BlkX       == [yaml |-> "ok", path |-> UrlX, start |-> Absent, end |-> Absent]
BlkYRange  == [yaml |-> "ok", path |-> UrlY, start |-> Num(2), end |-> Num(1)]
BlkLocal   == [yaml |-> "ok", path |-> LocalPath, start |-> Absent, end |-> Absent]
BlkBadYaml == [yaml |-> "error", path |-> EmptyPath, start |-> Absent, end |-> Absent]

\* ---- parseRefParams and getLineLimits (src/src/Parsing/ReferenceParsing.ts)

RECURSIVE JoinDash(_)
JoinDash(parts) ==
    IF Len(parts) = 0 THEN <<>>
    ELSE IF Len(parts) = 1 THEN parts[1]
    ELSE parts[1] \o <<"-">> \o JoinDash(Tail(parts))

\* id = [url.hostname, ...(url.pathname + url.search).split("/")].join("-")
\* The pathname starts with "/", so the split starts with an empty string.
ExtId(url) == JoinDash(<< <<url.hostname>>, <<>> >> \o url.segs)

AllIds == {ExtId(u) : u \in Urls}

ExtRefParamsOf(url, headers) ==
    [id |-> ExtId(url), rawUrl |-> url, hostname |-> url.hostname,
     headers |-> headers, storePath |-> <<"content", ExtId(url)>>]

Thrown(msg) == [err |-> msg]

\* A line identifier that is a string, and the RegExp built from a source.
Str(s) == [t |-> "string", n |-> 0, s |-> s]
RegExpOf(source) == [t |-> "regexp", n |-> 0, s |-> source]
Null == [t |-> "null", n |-> 0]
QuoteChars == {"\"", "'"}

\* /".*"/ and /'.*'/: a quote character with the same one somewhere after it.
HasQuoted(s, q) == \E i, j \in 1..Len(s) : i < j /\ s[i] = q /\ s[j] = q

\* getLineIdentifier. The regular expressions of the model are well formed,
\* so new RegExp does not throw.
getLineIdentifier(x) ==
    IF x.t = "undefined" THEN Null
    ELSE IF x.t = "number" THEN x
    ELSE IF Len(x.s) >= 2 /\ Head(x.s) = "/" /\ x.s[Len(x.s)] = "/"
         THEN RegExpOf(SubSeq(x.s, 2, Len(x.s) - 1))
    ELSE IF \E q \in QuoteChars : HasQuoted(x.s, q)
         THEN Str(SubSeq(x.s, 2, Len(x.s) - 1))
    ELSE IF \E i \in 1..Len(x.s) : ~IsDigit(x.s[i]) THEN x
    ELSE IF x.s # <<>> THEN Num(ParseNat(x.s))
    ELSE Null

\* parseRefParams: the RefParams, or the error thrown. The paths of this
\* model have no scheme (new URL throws) or the https scheme.
parseRefParams(blk) ==
    IF blk.yaml # "ok" THEN Thrown("YAML Parse Error")
    ELSE IF blk.path = EmptyPath THEN Thrown("No path specified")
    ELSE IF blk.path.scheme = "" THEN Thrown("Invalid URL")
    ELSE [err |-> "",
          path |-> blk.path,
          storePath |-> <<"content", ExtId(blk.path)>>,
          language |-> blk.path.ext,
          external |-> ExtRefParamsOf(blk.path, NoHeaders),
          end |-> getLineIdentifier(blk.end),
          start |-> getLineIdentifier(blk.start)]

\* RegExp.prototype.test for the patterns of the model: literal characters,
\* anchored at the start of the line when the source begins with ^.
RegExpTest(source, line) ==
    IF source # <<>> /\ Head(source) = "^"
    THEN StartsWith(line, Tail(source))
    ELSE Contains(line, source)

\* The positions of the lines matching a regular expression / holding a text.
TestHits(lines, source) == {i \in 1..Len(lines) : RegExpTest(source, lines[i])}
IndexOfHits(lines, text) == {i \in 1..Len(lines) : Contains(lines[i], text)}

\* A string written /.../
Slashed(s) == StartsWith(s, <<"/">>) /\ s[Len(s)] = "/"

\* replace(/^\/(.*)\/$/, "$1"): the text between the slashes; the lone "/" is
\* left as it is.
Unslashed(s) == IF Len(s) >= 2 THEN SubSeq(s, 2, Len(s) - 1) ELSE s

NotAFunction == "TypeError: startsWith is not a function"

\* The start index of getLineLimits. A RegExp object has no startsWith
\* method, so the call on it throws a TypeError.
StartIndexOf(lines, start) ==
    IF start.t = "null" THEN [err |-> "", i |-> 0]
    ELSE IF start.t = "number" THEN [err |-> "", i |-> start.n - 1]
    ELSE IF start.t = "regexp" THEN [err |-> NotAFunction, i |-> 0]
    ELSE IF Slashed(start.s)
         THEN [err |-> "", i |-> FirstIndex(TestHits(lines, Unslashed(start.s)))]
    ELSE [err |-> "", i |-> FirstIndex(IndexOfHits(lines, start.s))]

\* The end index of getLineLimits. Number of the text after + is its decimal
\* value when it is all digits (0 when empty); otherwise it is NaN, every
\* comparison with NaN is false and slice treats NaN + 1 as 0.
EndIndexOf(lines, end, startIndex) ==
    IF end.t = "null" THEN [err |-> "", i |-> Len(lines) - 1, nan |-> FALSE]
    ELSE IF end.t = "number" THEN [err |-> "", i |-> end.n - 1, nan |-> FALSE]
    ELSE IF end.t = "regexp" THEN [err |-> NotAFunction, i |-> 0, nan |-> FALSE]
    ELSE IF Slashed(end.s)
         THEN [err |-> "", i |-> FirstIndex(TestHits(lines, Unslashed(end.s))), nan |-> FALSE]
    ELSE IF StartsWith(end.s, <<"+">>)
         THEN [err |-> "", i |-> startIndex + ParseNat(SelectSeq(Tail(end.s), IsDigit)),
               nan |-> ~AllDigits(Tail(end.s))]
    ELSE [err |-> "", i |-> FirstIndex(IndexOfHits(lines, end.s)), nan |-> FALSE]

\* getLineLimits.
getLineLimits(lines, params) ==
    LET s == StartIndexOf(lines, params.start)
        e == EndIndexOf(lines, params.end, s.i)
        startIndex == s.i
        endIndex == e.i
    IN  IF s.err # "" THEN Thrown(s.err)
        ELSE IF e.err # "" THEN Thrown(e.err)
        ELSE IF ~e.nan /\ startIndex > endIndex
        THEN Thrown("Specified Start line is after the specified End line")
        ELSE IF startIndex = -1 THEN Thrown("Start line could not be found")
        ELSE IF ~e.nan /\ endIndex = -1 THEN Thrown("End line could not be found")
        ELSE [err |-> "", startLine |-> startIndex + 1,
              codeSection |-> IF e.nan THEN <<>>
                              ELSE Slice(lines, startIndex, endIndex + 1)]

\* The GitHub URL pattern of fetchGitHubSCM needs owner, repo, ref and path.
GitHubUrlMatches(url) == Len(url.segs) >= 4

\* What the remote host serves for a URL, and the metadata _fetchExtRef builds.
RemoteContent(url) == << <<"1", url.hostname, url.segs>>, <<"2", url.hostname, url.segs>> >>
MetadataOf(url) ==
    [site |-> IF IsGitHubHost(url.hostname) THEN "github" ELSE "", of |-> url]
NoMetadata == [site |-> "", of |-> EmptyPath]

\* ---- the cache index: an object keyed by id, in insertion order

CacheHas(cache, id) == \E i \in 1..Len(cache) : cache[i].id = id
CacheAt(cache, id) == cache[CHOOSE i \in 1..Len(cache) : cache[i].id = id]
CacheIds(cache) == [i \in 1..Len(cache) |-> cache[i].id]

\* Keeps the first occurrence of every element.
RECURSIVE Dedupe(_)
Dedupe(s) ==
    IF s = <<>> THEN <<>>
    ELSE LET front == Dedupe(SubSeq(s, 1, Len(s) - 1))
         IN  IF Includes(front, s[Len(s)]) THEN front ELSE Append(front, s[Len(s)])

\* The (sourcePath, id) edges of the cache, ids in key order and the
\* sourcePaths of each id in list order.
RECURSIVE Edges(_)
Edges(cache) ==
    IF cache = <<>> THEN <<>>
    ELSE [i \in 1..Len(cache[1].sourcePaths) |->
              [sourcePath |-> cache[1].sourcePaths[i], id |-> cache[1].id]]
         \o Edges(Tail(cache))

IdsOfEdges(edges) == [i \in 1..Len(edges) |-> edges[i].id]
PathsOfEdges(edges) == [i \in 1..Len(edges) |-> edges[i].sourcePath]

\* cacheToReferencesByFile: sourcePath -> ids, keyed in order of appearance.
cacheToReferencesByFile(cache) ==
    LET edges == Edges(cache)
        keys == Dedupe(PathsOfEdges(edges))
    IN  [k \in 1..Len(keys) |->
            [sourcePath |-> keys[k],
             ids |-> LET sel(e) == e.sourcePath = keys[k]
                     IN  IdsOfEdges(SelectSeq(edges, sel))]]

RECURSIVE EdgesByFile(_)
EdgesByFile(refsByFile) ==
    IF refsByFile = <<>> THEN <<>>
    ELSE [i \in 1..Len(refsByFile[1].ids) |->
              [sourcePath |-> refsByFile[1].sourcePath, id |-> refsByFile[1].ids[i]]]
         \o EdgesByFile(Tail(refsByFile))

\* A variant of refsByFileToCache that lists only the first document of an id.
refsByFileToCache_m(refsByFile, cache) ==
    LET edges == EdgesByFile(refsByFile)
        keys == Dedupe(IdsOfEdges(edges))
    IN  [k \in 1..Len(keys) |->
            [id |-> keys[k],
             sourcePaths |-> LET sel(e) == e.id = keys[k]
                             IN  <<PathsOfEdges(SelectSeq(edges, sel))[1]>>,
             extRefParams |-> CacheAt(cache, keys[k]).extRefParams]]

\* refsByFileToCache: id -> {sourcePaths without duplicates, extRefParams of
\* the old cache}, keyed in order of appearance.
refsByFileToCache(refsByFile, cache) ==
    LET edges == EdgesByFile(refsByFile)
        keys == Dedupe(IdsOfEdges(edges))
    IN  [k \in 1..Len(keys) |->
            [id |-> keys[k],
             sourcePaths |-> LET sel(e) == e.id = keys[k]
                             IN  Dedupe(PathsOfEdges(SelectSeq(edges, sel))),
             extRefParams |-> CacheAt(cache, keys[k]).extRefParams]]

\* A variant of AddEdge that opens a new entry for every edge.
AddEdge_m(cache, params, sourcePath) ==
    Append(cache, [id |-> params.id, sourcePaths |-> <<sourcePath>>,
                   extRefParams |-> params])

\* fetchExtRef, lines 250-254: the cache with the edge sourcePath -> id added.
AddEdge(cache, params, sourcePath) ==
    IF ~CacheHas(cache, params.id)
    THEN Append(cache, [id |-> params.id, sourcePaths |-> <<sourcePath>>,
                        extRefParams |-> params])
    ELSE [i \in 1..Len(cache) |->
            IF cache[i].id = params.id
            THEN [cache[i] EXCEPT !.sourcePaths = Append(@, sourcePath)]
            ELSE cache[i]]

HasEdge(cache, id, sourcePath) ==
    CacheHas(cache, id) /\ Includes(CacheAt(cache, id).sourcePaths, sourcePath)

\* updateExternalReferencedFiles, line 124: cache[ref.id].extRefParams = ref
SetParams(cache, ref) ==
    [i \in 1..Len(cache) |->
        IF cache[i].id = ref.id THEN [cache[i] EXCEPT !.extRefParams = ref] ELSE cache[i]]

\* getFileExtRefParams: the ExtRefParams of the reference blocks of a
\* document, or the error thrown (the document cannot be read, or the body of
\* one of its reference blocks does not parse).
RECURSIVE ExtParamsOfBlocks(_)
ExtParamsOfBlocks(blocks) ==
    IF blocks = <<>> THEN [err |-> "", refs |-> <<>>]
    ELSE LET p == parseRefParams(blocks[1]) IN
         IF p.err # "" THEN Thrown(p.err)
         ELSE LET rest == ExtParamsOfBlocks(Tail(blocks)) IN
              IF rest.err # "" THEN rest
              ELSE [err |-> "", refs |-> <<p.external>> \o rest.refs]

getFileExtRefParams(vault, sourcePath) ==
    IF ~vault[sourcePath].exists THEN Thrown("File could not be read")
    ELSE ExtParamsOfBlocks(vault[sourcePath].blocks)

\* A variant of writeCache that keeps the entries on disk whose id the
\* copy written does not have.
writeCache_m(onDisk, cache) ==
    LET kept(e) == ~CacheHas(cache, e.id)
    IN  cache \o SelectSeq(onDisk, kept)

\* writeCache: the cache file after the write is the copy written, whatever
\* the file held.
writeCache(onDisk, cache) == cache

\* ---- files of the plugin's data folder (plugin.update, plugin.delete)
NoFile == <<>>
FileUpdate(f, id, content) == [f EXCEPT ![id] = <<content>>]
FileDelete(f, id) == [f EXCEPT ![id] = NoFile]

\* ---- tasks: the calls of getRef, cleanExternalReferencedFiles and
\* updateExternalReferencedFiles in flight, each at one of its await points

TaskIds == {1, 2}

\* At most MaxCalls calls are started in one behaviour.
MaxCalls == 2

NoBlock == BlkBadYaml
NoRef == [language |-> "", startLine |-> 0, path |-> EmptyPath, external |-> <<>>,
          code |-> <<"none">>]

IdleTask ==
    [kind |-> "none", pc |-> "idle", doc |-> NoDoc, blk |-> NoBlock,
     k |-> 0, cache |-> <<>>, byFile |-> <<>>, todo |-> <<>>, ext |-> <<>>,
     reqs |-> 0, wrote |-> {}, alone |-> TRUE,
     outcome |-> "none", error |-> "", result |-> NoRef]

Running(t) == tasks[t].pc \notin {"idle", "done"}

\* A call is started in the lowest slot never used, or else in the lowest
\* slot whose call has finished.
Free(t) ==
    /\ ~Running(t)
    /\ tasks[t].pc = "idle" => \A u \in TaskIds : u < t => tasks[u].pc # "idle"
    /\ tasks[t].pc = "done" =>
           \A u \in TaskIds : tasks[u].pc # "idle" /\ (u < t => Running(u))

\* Another call starts while the running tasks are in flight.
Disturbed(ts) == [u \in TaskIds |-> IF Running(u) THEN [ts[u] EXCEPT !.alone = FALSE] ELSE ts[u]]

Begin(t, rec) ==
    /\ calls < MaxCalls
    /\ Free(t)
    /\ calls' = calls + 1
    /\ tasks' = [Disturbed(tasks) EXCEPT ![t] =
                    [rec EXCEPT !.alone = \A u \in TaskIds : ~Running(u)]]

Step(t, rec) == tasks' = [tasks EXCEPT ![t] = rec]

\* The locals of a finished call are dropped; what it did stays on record,
\* with the copy of the cache index a getRef call wrote.
Finished(T, outcome, error, result) ==
    [IdleTask EXCEPT !.kind = T.kind, !.pc = "done", !.doc = T.doc, !.blk = T.blk,
                     !.cache = IF T.kind = "render" THEN T.cache ELSE <<>>,
                     !.reqs = T.reqs, !.wrote = T.wrote, !.alone = T.alone,
                     !.outcome = outcome, !.error = error, !.result = result]

\* getRef, lines 97-107: the Ref returned from the catch block.
ErrorRef(message) ==
    [language |-> "", startLine |-> 1, path |-> EmptyPath, external |-> <<>>,
     code |-> <<"> [!error] ", message>>]

\* A variant of Caught in which the error leaves getRef.
Caught_m(T, message) == Finished(T, "threw", message, NoRef)

\* getRef's catch: any error thrown inside the try is returned as a Ref.
Caught(T, message) == Finished(T, "returned", message, ErrorRef(message))

\* An error that leaves an async function rejects its promise.
Rejected(T, message) == Finished(T, "threw", message, NoRef)

ParamsOf(T) == parseRefParams(T.blk).external

\* _fetchExtRef, lines 241-243: whatever is thrown inside its try is thrown
\* again as Error("Could not fetch external URL: " + cause).
RequestError == "Could not fetch external URL: request failed"
InvalidGitHubUrl == "Could not fetch external URL: Error: invalid GitHub url"

\* The requests _fetchExtRef sends for these params; none when the GitHub URL
\* pattern does not match (the error is thrown before any request).
PlanOf(params) ==
    IF IsGitHubHost(params.hostname) /\ ~GitHubUrlMatches(params.rawUrl)
    THEN <<>>
    ELSE RequestPlan(params.hostname, params.headers)

\* ---- getRef -> fetchExtRef -> updateExtRef

\* getRef is called for block i of document d: parseRefParams, then
\* fetchExtRef asks whether the content file exists.
StartRender(t, d) ==
    /\ docs[d].exists
    /\ \E i \in 1..Len(docs[d].blocks) :
       LET T == [IdleTask EXCEPT !.kind = "render", !.doc = d, !.blk = docs[d].blocks[i]]
           p == parseRefParams(T.blk)
       IN  Begin(t, IF p.err # "" THEN Caught(T, p.err) ELSE [T EXCEPT !.pc = "exists"])
    /\ UNCHANGED <<fnVars, segVars, fetchVars, docs, files, metas, cacheFile, signals>>

\* A variant of RenderExists that fetches whether or not the file exists.
RenderExists_m(t) ==
    /\ tasks[t].kind = "render" /\ tasks[t].pc = "exists"
    /\ LET T == tasks[t]
           p == ParamsOf(T)
       IN  Step(t, IF PlanOf(p) = <<>>
                   THEN Caught(T, InvalidGitHubUrl)
                   ELSE [T EXCEPT !.pc = "request", !.k = 0])
    /\ UNCHANGED <<fnVars, segVars, fetchVars, docs, files, metas, cacheFile, signals, calls>>

\* fetchExtRef, line 239: exists(params.storePath)
RenderExists(t) ==
    /\ tasks[t].kind = "render" /\ tasks[t].pc = "exists"
    /\ LET T == tasks[t]
           p == ParamsOf(T)
       IN  Step(t, IF files[p.id] # NoFile THEN [T EXCEPT !.pc = "read_content"]
                   ELSE IF PlanOf(p) = <<>>
                        THEN Caught(T, InvalidGitHubUrl)
                        ELSE [T EXCEPT !.pc = "request", !.k = 0])
    /\ UNCHANGED <<fnVars, segVars, fetchVars, docs, files, metas, cacheFile, signals, calls>>

\* _fetchExtRef: a request is answered; the next one is sent or the ExtRef is
\* built and updateExtRef writes the content file.
RequestAnswered(T) ==
    LET p == IF T.kind = "render" THEN ParamsOf(T) ELSE T.todo[1]
    IN  IF T.k + 1 < Len(PlanOf(p))
        THEN [T EXCEPT !.k = T.k + 1, !.reqs = T.reqs + 1]
        ELSE [T EXCEPT !.k = 0, !.reqs = T.reqs + 1, !.pc = "write_content",
                       !.ext = <<[content |-> RemoteContent(p.rawUrl),
                                  metadata |-> MetadataOf(p.rawUrl)]>>]

RenderRequestOk(t) ==
    /\ tasks[t].kind = "render" /\ tasks[t].pc = "request"
    /\ Step(t, RequestAnswered(tasks[t]))
    /\ UNCHANGED <<fnVars, segVars, fetchVars, docs, files, metas, cacheFile, signals, calls>>

\* A variant of RequestFailed in which the failed request is sent again.
RequestFailed_m(T) == [T EXCEPT !.reqs = T.reqs + 2]

\* _fetchExtRef, lines 241-243: a failed request is rethrown, wrapped; getRef
\* catches it.
RequestFailed(T) == [T EXCEPT !.reqs = T.reqs + 1]

RenderRequestFails(t) ==
    /\ tasks[t].kind = "render" /\ tasks[t].pc = "request"
    /\ Step(t, Caught(RequestFailed(tasks[t]), RequestError))
    /\ UNCHANGED <<fnVars, segVars, fetchVars, docs, files, metas, cacheFile, signals, calls>>

\* updateExtRef, line 228: plugin.update(params.storePath, ref.content)
RenderWriteContent(t) ==
    /\ tasks[t].kind = "render" /\ tasks[t].pc = "write_content"
    /\ LET T == tasks[t] IN
       /\ files' = FileUpdate(files, ParamsOf(T).id, T.ext[1].content)
       /\ Step(t, [T EXCEPT !.pc = "write_meta", !.wrote = @ \cup {"content"}])
    /\ UNCHANGED <<fnVars, segVars, fetchVars, docs, metas, cacheFile, signals, calls>>

\* updateExtRef, line 229: plugin.update(refMetadataPath(id), ref.metadata)
RenderWriteMeta(t) ==
    /\ tasks[t].kind = "render" /\ tasks[t].pc = "write_meta"
    /\ LET T == tasks[t] IN
       /\ metas' = FileUpdate(metas, ParamsOf(T).id, T.ext[1].metadata)
       /\ Step(t, [T EXCEPT !.pc = "read_cache", !.wrote = @ \cup {"meta"}])
    /\ UNCHANGED <<fnVars, segVars, fetchVars, docs, files, cacheFile, signals, calls>>

\* fetchExtRef, line 245: read(params.storePath); the read of a file that is
\* gone throws.
RenderReadContent(t) ==
    /\ tasks[t].kind = "render" /\ tasks[t].pc = "read_content"
    /\ LET T == tasks[t]
           f == files[ParamsOf(T).id]
       IN  Step(t, IF f = NoFile THEN Caught(T, "File does not exist")
                   ELSE [T EXCEPT !.pc = "read_meta",
                                  !.ext = <<[content |-> f[1], metadata |-> NoMetadata]>>])
    /\ UNCHANGED <<fnVars, segVars, fetchVars, docs, files, metas, cacheFile, signals, calls>>

\* fetchExtRef, line 246: readExtRefMetadata, {} when the file cannot be read
RenderReadMeta(t) ==
    /\ tasks[t].kind = "render" /\ tasks[t].pc = "read_meta"
    /\ LET T == tasks[t]
           m == metas[ParamsOf(T).id]
       IN  Step(t, [T EXCEPT !.pc = "read_cache",
                             !.ext = <<[content |-> T.ext[1].content,
                                        metadata |-> IF m = NoFile THEN NoMetadata ELSE m[1]]>>])
    /\ UNCHANGED <<fnVars, segVars, fetchVars, docs, files, metas, cacheFile, signals, calls>>

\* fetchExtRef, lines 249-254: readCache, then the edge is added to the copy
\* in memory unless the cache read already lists the document for the id.
RenderReadCache(t) ==
    /\ tasks[t].kind = "render" /\ tasks[t].pc = "read_cache"
    /\ LET T == tasks[t]
           p == ParamsOf(T)
       IN  Step(t, IF HasEdge(cacheFile, p.id, T.doc)
                   THEN [T EXCEPT !.pc = "exists_store"]
                   ELSE [T EXCEPT !.pc = "write_cache",
                                  !.cache = AddEdge(cacheFile, p, T.doc)])
    /\ UNCHANGED <<fnVars, segVars, fetchVars, docs, files, metas, cacheFile, signals, calls>>

\* fetchExtRef, line 255: writeCache(cache)
RenderWriteCache(t) ==
    /\ tasks[t].kind = "render" /\ tasks[t].pc = "write_cache"
    /\ LET T == tasks[t] IN
       /\ cacheFile' = writeCache(cacheFile, T.cache)
       /\ Step(t, [T EXCEPT !.pc = "exists_store", !.wrote = @ \cup {"cache"}])
    /\ UNCHANGED <<fnVars, segVars, fetchVars, docs, files, metas, signals, calls>>

\* fetchExtRef, line 255: the write of the cache file fails
CacheWriteError == "Cache could not be written"

RenderWriteCacheFails(t) ==
    /\ tasks[t].kind = "render" /\ tasks[t].pc = "write_cache"
    /\ Step(t, Caught(tasks[t], CacheWriteError))
    /\ UNCHANGED <<fnVars, segVars, fetchVars, docs, files, metas, cacheFile, signals, calls>>

\* getRef, lines 73-75: exists(params.storePath)
RenderExistsStore(t) ==
    /\ tasks[t].kind = "render" /\ tasks[t].pc = "exists_store"
    /\ LET T == tasks[t] IN
       Step(t, IF files[ParamsOf(T).id] = NoFile
               THEN Caught(T, "Local file not exist")
               ELSE [T EXCEPT !.pc = "read_store"])
    /\ UNCHANGED <<fnVars, segVars, fetchVars, docs, files, metas, cacheFile, signals, calls>>

\* The Ref getRef returns from the content read and the line limits.
RefOf(T, content) ==
    LET p == parseRefParams(T.blk)
        sectionInfo == getLineLimits(content, p)
    IN  IF sectionInfo.err # "" THEN Caught(T, sectionInfo.err)
        ELSE Finished(T, "returned", "",
                [language |-> p.language, startLine |-> sectionInfo.startLine,
                 path |-> p.path,
                 external |-> <<[id |-> p.external.id, params |-> p.external,
                                 content |-> T.ext[1].content,
                                 metadata |-> T.ext[1].metadata]>>,
                 code |-> <<"fence", p.language, sectionInfo.codeSection>>])

\* getRef, lines 77-96: read(params.storePath), getLineLimits, the Ref
RenderReadStore(t) ==
    /\ tasks[t].kind = "render" /\ tasks[t].pc = "read_store"
    /\ LET T == tasks[t]
           f == files[ParamsOf(T).id]
       IN  Step(t, IF f = NoFile THEN Caught(T, "File does not exist") ELSE RefOf(T, f[1]))
    /\ UNCHANGED <<fnVars, segVars, fetchVars, docs, files, metas, cacheFile, signals, calls>>

\* ---- cleanExternalReferencedFiles (also the first call of
\* updateExternalReferencedFiles)

StartClean(t) ==
    /\ Begin(t, [IdleTask EXCEPT !.kind = "clean", !.pc = "clean_read_cache"])
    /\ UNCHANGED <<fnVars, segVars, fetchVars, docs, files, metas, cacheFile, signals>>

\* updateExternalReferencedFiles(plugin, sourcePath): scope is a document or
\* NoDoc (undefined).
StartUpdate(t, scope) ==
    /\ Begin(t, [IdleTask EXCEPT !.kind = "update", !.pc = "clean_read_cache", !.doc = scope])
    /\ UNCHANGED <<fnVars, segVars, fetchVars, docs, files, metas, cacheFile, signals>>

\* The ids of the old cache that the new cache no longer has, in key order.
Dropped(cache, newCache) ==
    LET gone(id) == ~CacheHas(newCache, id)
    IN  SelectSeq(CacheIds(cache), gone)

\* Lines 143-150 once every document is scanned: the new cache is built and
\* the files of the dropped ids are deleted one by one, then the cache written.
Scanned(T) ==
    LET newCache == refsByFileToCache(T.byFile, T.cache)
        dels == Dropped(T.cache, newCache)
    IN  [T EXCEPT !.k = 0, !.byFile = <<>>, !.cache = newCache, !.todo = dels,
                  !.pc = IF dels = <<>> THEN "clean_write_cache" ELSE "clean_delete_content"]

\* Lines 133-134: readCache, cacheToReferencesByFile
CleanReadCache(t) ==
    /\ tasks[t].pc = "clean_read_cache"
    /\ LET T == [tasks[t] EXCEPT !.cache = cacheFile,
                                 !.byFile = cacheToReferencesByFile(cacheFile), !.k = 0]
       IN  Step(t, IF T.byFile = <<>> THEN Scanned(T) ELSE [T EXCEPT !.pc = "clean_scan"])
    /\ UNCHANGED <<fnVars, segVars, fetchVars, docs, files, metas, cacheFile, signals, calls>>

\* Lines 135-142, one pass of the loop: getFileExtRefParams reads the
\* document and the ids it no longer references are filtered out.
CleanScan(t) ==
    /\ tasks[t].pc = "clean_scan"
    /\ LET T == tasks[t]
           entry == T.byFile[T.k + 1]
           found == getFileExtRefParams(docs, entry.sourcePath)
       IN  IF found.err # "" THEN Step(t, Rejected(T, found.err))
           ELSE LET extRefIds == [i \in 1..Len(found.refs) |-> found.refs[i].id]
                    keep(id) == Includes(extRefIds, id)
                    T2 == [T EXCEPT !.byFile[T.k + 1].ids = SelectSeq(entry.ids, keep),
                                    !.k = T.k + 1]
                IN  Step(t, IF T2.k = Len(T2.byFile) THEN Scanned(T2) ELSE T2)
    /\ UNCHANGED <<fnVars, segVars, fetchVars, docs, files, metas, cacheFile, signals, calls>>

\* Line 148: plugin.delete(plugin.refContentPath(id))
CleanDeleteContent(t) ==
    /\ tasks[t].pc = "clean_delete_content"
    /\ LET T == tasks[t] IN
       /\ files' = FileDelete(files, T.todo[1])
       /\ Step(t, [T EXCEPT !.pc = "clean_delete_meta", !.wrote = @ \cup {"clean_content"}])
    /\ UNCHANGED <<fnVars, segVars, fetchVars, docs, metas, cacheFile, signals, calls>>

\* Line 149: plugin.delete(plugin.refMetadataPath(id))
CleanDeleteMeta(t) ==
    /\ tasks[t].pc = "clean_delete_meta"
    /\ LET T == tasks[t] IN
       /\ metas' = FileDelete(metas, T.todo[1])
       /\ Step(t, [T EXCEPT !.todo = Tail(T.todo), !.wrote = @ \cup {"clean_meta"},
                            !.pc = IF Len(T.todo) > 1 THEN "clean_delete_content"
                                   ELSE "clean_write_cache"])
    /\ UNCHANGED <<fnVars, segVars, fetchVars, docs, files, cacheFile, signals, calls>>

\* Line 151: writeCache(newCache); cleanExternalReferencedFiles returns, and
\* updateExternalReferencedFiles goes on to read the cache (line 115).
CleanWriteCache(t) ==
    /\ tasks[t].pc = "clean_write_cache"
    /\ LET T == [tasks[t] EXCEPT !.wrote = @ \cup {"clean_cache"}] IN
       /\ cacheFile' = writeCache(cacheFile, T.cache)
       /\ Step(t, IF T.kind = "clean" THEN Finished(T, "returned", "", NoRef)
                  ELSE [T EXCEPT !.pc = "update_read_cache", !.cache = <<>>])
    /\ UNCHANGED <<fnVars, segVars, fetchVars, docs, files, metas, signals, calls>>

\* ---- updateExternalReferencedFiles after the clean

\* The refs are listed: the loop of lines 122-125 starts on the first one,
\* whose fetch throws at once when its GitHub URL does not match, or the
\* cache is written when there is none.
Listed(T, refs) ==
    IF refs = <<>> THEN [T EXCEPT !.todo = <<>>, !.pc = "update_write_cache"]
    ELSE IF PlanOf(refs[1]) = <<>> THEN Rejected(T, InvalidGitHubUrl)
    ELSE [T EXCEPT !.todo = refs, !.k = 0, !.pc = "request"]

\* Lines 115-121: readCache; without a scope the refs are the extRefParams of
\* the cache, with a scope getFileExtRefParams is called.
UpdateReadCache(t) ==
    /\ tasks[t].pc = "update_read_cache"
    /\ LET T == [tasks[t] EXCEPT !.cache = cacheFile] IN
       Step(t, IF T.doc # NoDoc THEN [T EXCEPT !.pc = "update_scan"]
               ELSE Listed(T, [i \in 1..Len(cacheFile) |-> cacheFile[i].extRefParams]))
    /\ UNCHANGED <<fnVars, segVars, fetchVars, docs, files, metas, cacheFile, signals, calls>>

\* Line 118: getFileExtRefParams(sourcePath)
UpdateScan(t) ==
    /\ tasks[t].pc = "update_scan"
    /\ LET T == tasks[t]
           found == getFileExtRefParams(docs, T.doc)
       IN  Step(t, IF found.err # "" THEN Rejected(T, found.err) ELSE Listed(T, found.refs))
    /\ UNCHANGED <<fnVars, segVars, fetchVars, docs, files, metas, cacheFile, signals, calls>>

UpdateRequestOk(t) ==
    /\ tasks[t].kind = "update" /\ tasks[t].pc = "request"
    /\ Step(t, RequestAnswered(tasks[t]))
    /\ UNCHANGED <<fnVars, segVars, fetchVars, docs, files, metas, cacheFile, signals, calls>>

\* updateExternalReferencedFiles has no catch: the error rejects it.
UpdateRequestFails(t) ==
    /\ tasks[t].kind = "update" /\ tasks[t].pc = "request"
    /\ Step(t, Rejected(RequestFailed(tasks[t]), RequestError))
    /\ UNCHANGED <<fnVars, segVars, fetchVars, docs, files, metas, cacheFile, signals, calls>>

UpdateWriteContent(t) ==
    /\ tasks[t].kind = "update" /\ tasks[t].pc = "write_content"
    /\ LET T == tasks[t] IN
       /\ files' = FileUpdate(files, T.todo[1].id, T.ext[1].content)
       /\ Step(t, [T EXCEPT !.pc = "write_meta", !.wrote = @ \cup {"content"}])
    /\ UNCHANGED <<fnVars, segVars, fetchVars, docs, metas, cacheFile, signals, calls>>

\* Line 124 after updateExtRef returns: cache[ref.id].extRefParams = ref,
\* a TypeError when the cache read has no entry for the id.
TypeError == "Cannot set properties of undefined"

ParamsStored(T) ==
    IF ~CacheHas(T.cache, T.todo[1].id)
    THEN Rejected(T, TypeError)
    ELSE Listed([T EXCEPT !.cache = SetParams(T.cache, T.todo[1]), !.ext = <<>>],
                Tail(T.todo))

UpdateWriteMeta(t) ==
    /\ tasks[t].kind = "update" /\ tasks[t].pc = "write_meta"
    /\ LET T == tasks[t] IN
       /\ metas' = FileUpdate(metas, T.todo[1].id, T.ext[1].metadata)
       /\ Step(t, ParamsStored([T EXCEPT !.wrote = @ \cup {"meta"}]))
    /\ UNCHANGED <<fnVars, segVars, fetchVars, docs, files, cacheFile, signals, calls>>

\* Line 126: writeCache(cache)
UpdateWriteCache(t) ==
    /\ tasks[t].pc = "update_write_cache"
    /\ LET T == tasks[t] IN
       /\ cacheFile' = writeCache(cacheFile, T.cache)
       /\ Step(t, [T EXCEPT !.pc = "update_signal", !.cache = <<>>,
                            !.wrote = @ \cup {"cache"}])
    /\ UNCHANGED <<fnVars, segVars, fetchVars, docs, files, metas, signals, calls>>

\* Line 127: plugin.renderReadingView()
UpdateSignal(t) ==
    /\ tasks[t].pc = "update_signal"
    /\ signals' = signals + 1
    /\ Step(t, Finished(tasks[t], "returned", "", NoRef))
    /\ UNCHANGED <<fnVars, segVars, fetchVars, docs, files, metas, cacheFile, calls>>

\* ---- the user edits the vault, between the calls (an edit after the last
\* call is seen by no call)

Edit(newDocs) ==
    /\ calls < MaxCalls
    /\ \A t \in TaskIds : ~Running(t)
    /\ docs' = newDocs
    /\ UNCHANGED <<fnVars, segVars, fetchVars, files, metas, cacheFile, tasks, calls, signals>>

RemoveAt(s, i) == SubSeq(s, 1, i - 1) \o SubSeq(s, i + 1, Len(s))

\* A reference block is removed from a document.
RemoveBlock(d) ==
    /\ docs[d].exists
    /\ \E i \in 1..Len(docs[d].blocks) : Edit([docs EXCEPT ![d].blocks = RemoveAt(@, i)])

\* A document is deleted.
DeleteDoc(d) ==
    /\ docs[d].exists
    /\ Edit([docs EXCEPT ![d] = [exists |-> FALSE, blocks |-> <<>>]])

\* ---- the specification of the cache

\* The vault at the start: both documents reference X; a.md also references
\* Y with a start line after its end line, b.md also has a local reference.
Vault ==
    [d \in Docs |->
        [exists |-> TRUE,
         blocks |-> IF d = "a.md" THEN <<BlkX, BlkYRange>> ELSE <<BlkX, BlkLocal>>]]

CacheInit ==
    /\ docs = Vault
    /\ files = [id \in AllIds |-> NoFile]
    /\ metas = [id \in AllIds |-> NoFile]
    /\ cacheFile = <<>>
    /\ tasks = [t \in TaskIds |-> IdleTask]
    /\ calls = 0
    /\ signals = 0

CacheIdle ==
    /\ docs = [d \in Docs |-> [exists |-> FALSE, blocks |-> <<>>]]
    /\ files = [id \in AllIds |-> NoFile]
    /\ metas = [id \in AllIds |-> NoFile]
    /\ cacheFile = <<>>
    /\ tasks = [t \in TaskIds |-> IdleTask]
    /\ calls = 0
    /\ signals = 0

CacheNext ==
    \/ \E t \in TaskIds, d \in Docs : StartRender(t, d)
    \/ \E t \in TaskIds : StartClean(t)
    \/ \E t \in TaskIds, scope \in Docs \cup {NoDoc} : StartUpdate(t, scope)
    \/ \E t \in TaskIds :
        \/ RenderExists(t) \/ RenderRequestOk(t) \/ RenderRequestFails(t)
        \/ RenderWriteContent(t) \/ RenderWriteMeta(t)
        \/ RenderReadContent(t) \/ RenderReadMeta(t)
        \/ RenderReadCache(t) \/ RenderWriteCache(t) \/ RenderWriteCacheFails(t)
        \/ RenderExistsStore(t) \/ RenderReadStore(t)
        \/ CleanReadCache(t) \/ CleanScan(t)
        \/ CleanDeleteContent(t) \/ CleanDeleteMeta(t) \/ CleanWriteCache(t)
        \/ UpdateReadCache(t) \/ UpdateScan(t)
        \/ UpdateRequestOk(t) \/ UpdateRequestFails(t)
        \/ UpdateWriteContent(t) \/ UpdateWriteMeta(t)
        \/ UpdateWriteCache(t) \/ UpdateSignal(t)
    \/ \E d \in Docs : RemoveBlock(d)
    \/ \E d \in Docs : DeleteDoc(d)

\* ---- garbage collection of a cache that earlier renders filled

\* The vaults: every document holds none, one or both of the blocks for X and
\* Y, or a local reference.
GcBlocks == {<<>>, <<BlkX>>, <<BlkYRange>>, <<BlkX, BlkYRange>>, <<BlkLocal>>}
GcVaults == [Docs -> {[exists |-> TRUE, blocks |-> b] : b \in GcBlocks}]

\* The cache indexes: X and Y each absent or listed for one or both
\* documents, with the content and metadata files of the listed ids on disk.
GcSourcePaths == {<<>>, <<"a.md">>, <<"b.md">>, <<"a.md", "b.md">>}
GcEntry(url, sourcePaths) ==
    IF sourcePaths = <<>> THEN <<>>
    ELSE <<[id |-> ExtId(url), sourcePaths |-> sourcePaths,
            extRefParams |-> ExtRefParamsOf(url, NoHeaders)]>>
GcCaches == {GcEntry(UrlX, x) \o GcEntry(UrlY, y) : x, y \in GcSourcePaths}
StoredFor(cache, of(_)) ==
    [id \in AllIds |->
        IF CacheHas(cache, id) THEN <<of(CacheAt(cache, id).extRefParams.rawUrl)>> ELSE NoFile]

GcInit ==
    /\ docs \in GcVaults
    /\ cacheFile \in GcCaches
    /\ files = StoredFor(cacheFile, RemoteContent)
    /\ metas = StoredFor(cacheFile, MetadataOf)
    /\ tasks = [t \in TaskIds |-> IdleTask]
    /\ calls = 0
    /\ signals = 0

GcNext ==
    \E t \in TaskIds :
        \/ StartClean(t) \/ CleanReadCache(t) \/ CleanScan(t)
        \/ CleanDeleteContent(t) \/ CleanDeleteMeta(t) \/ CleanWriteCache(t)

\* ------------------------------------------------------------------------
\* Pure functions of the parsers
\* ------------------------------------------------------------------------

NoArgs == [fn |-> "none"]
NoResult == [err |-> "", none |-> TRUE]

FnIdle ==
    /\ fnArgs = NoArgs
    /\ fnResult = NoResult
    /\ fnpc = "idle"

\* The call returns: fnResult is what the function computes from fnArgs.
Returns(value) ==
    /\ fnpc = "ready"
    /\ fnResult' = value
    /\ fnpc' = "done"
    /\ UNCHANGED <<fnArgs, segVars, fetchVars, cacheVars>>

\* ---- resolveLocalPath, getRelativePath and the path branch of
\* parseRefParams (src/src/Parsing/ReferenceParsing.ts)

LOCAL_PREFIX == <<"@", "/">>

\* Obsidian's normalizePath: runs of "/" collapse to one, leading and
\* trailing "/" are removed, the empty path becomes "/".
normalizePath(path) ==
    LET kept(part) == part # <<>>
        parts == SelectSeq(Split(path, "/"), kept)
    IN  IF parts = <<>> THEN <<"/">> ELSE Join(parts, <<"/">>)

OutsideVault == "Path references outside vault, too many \"../\"s used"
UseLocalPrefix == "Path should not start with \"/\", use \"@/\" to reference a path relative to the vault root folder"
CannotResolve == "Cannot resolve path"
InvalidURL == "Invalid URL"

\* The while loop of getRelativePath: one directory is popped for every
\* leading "../"; popping from no directory throws.
RECURSIVE WalkUp(_, _)
WalkUp(vaultDirs, path) ==
    IF StartsWith(path, <<".", ".", "/">>)
    THEN IF vaultDirs = <<>> THEN Thrown(OutsideVault)
         ELSE WalkUp(SubSeq(vaultDirs, 1, Len(vaultDirs) - 1), Substring(path, 3))
    ELSE [err |-> "", storePath |-> normalizePath(Join(Append(vaultDirs, path), <<"/">>))]

getRelativePath(path, sourcePath) ==
    LET p == IF StartsWith(path, <<".", "/">>) THEN Substring(path, 2) ELSE path
        split == Split(sourcePath, "/")
        vaultDirs == SubSeq(split, 1, Len(split) - 1)
    IN  WalkUp(vaultDirs, p)

\* The characters /^[^<:"/\\>?|*]/ excludes, among those of the model.
ReservedFirst == {"/", ":"}

\* resolveLocalPath for a path without wiki-link brackets or backslashes.
resolveLocalPath(rawPath, sourcePath) ==
    LET path == Trim(rawPath) IN
    IF StartsWith(path, LOCAL_PREFIX)
    THEN [err |-> "", storePath |-> Substring(path, 2)]
    ELSE IF StartsWith(path, <<".", "/">>) \/ (path # <<>> /\ path[1] \notin ReservedFirst)
    THEN getRelativePath(path, Trim(sourcePath))
    ELSE IF StartsWith(path, <<"/">>) THEN Thrown(UseLocalPrefix)
    ELSE Thrown(CannotResolve)

Letters == {"p", "d", "a"}

\* new URL(path) without a base parses only a string that starts with a
\* scheme: a letter, then letters, digits, "+", "-" or ".", then ":".
HasScheme(path) ==
    \E i \in 2..Len(path) :
        /\ path[i] = ":"
        /\ path[1] \in Letters
        /\ \A j \in 2..(i - 1) : path[j] \in Letters \cup {"."}

\* parseRefParams, lines 129-153, for a path that is not http(s): the
\* storePath, or the error thrown.
localStorePath(path, sourcePath) ==
    IF path = <<>> THEN Thrown("No path specified")
    ELSE IF ~HasScheme(path) THEN Thrown(InvalidURL)
    ELSE resolveLocalPath(path, sourcePath)

\* ---- the paths and source documents the resolver is exercised on
PathChars == {".", "/", "@", "p"}
MaxPathLen == 5
SchemedPath == <<"p", ":", "/", "p">>
SourcePaths == {<<"a">>, <<"d", "/", "a">>, <<"d", "/", "d", "/", "a">>}

ResolveInit ==
    /\ fnArgs \in [fn : {"localStorePath"},
                   path : SeqsUpTo(PathChars, MaxPathLen) \cup {SchemedPath},
                   sourcePath : SourcePaths]
    /\ fnResult = NoResult
    /\ fnpc = "ready"

CallLocalStorePath ==
    /\ fnArgs.fn = "localStorePath"
    /\ Returns(localStorePath(fnArgs.path, fnArgs.sourcePath))

\* ---- getLineIdentifier followed by getLineLimits ----

\* Lines of a referenced file, and raw start / end values of a reference.
FileLines == {<<"x">>, <<"d">>, <<"x", "d">>}
MaxFileLines == 3
RawStarts ==
    {Absent, Num(1), Num(2), Num(3),
     Str(<<"/", "d", "/">>), Str(<<"/", "^", "d", "/">>), Str(<<"d">>), Str(<<"\"", "x", "\"">>)}
RawEnds ==
    {Absent, Num(1), Num(2),
     Str(<<"+", "0">>), Str(<<"+", "1">>), Str(<<"d">>), Str(<<"/", "d", "/">>), Str(<<"2">>)}

LimitsInit ==
    /\ fnArgs \in [fn : {"getLineLimits"}, lines : SeqsUpTo(FileLines, MaxFileLines),
                   start : RawStarts, end : RawEnds]
    /\ fnResult = NoResult
    /\ fnpc = "ready"

\* parseRefParams resolves both identifiers; getRef then cuts the section.
CallGetLineLimits ==
    /\ fnArgs.fn = "getLineLimits"
    /\ Returns(getLineLimits(fnArgs.lines,
                             [start |-> getLineIdentifier(fnArgs.start),
                              end |-> getLineIdentifier(fnArgs.end)]))

\* ------------------------------------------------------------------------
\* Codeblock parameters: src/src/Parsing/CodeblockParsing.ts, lines 174-629
\* ------------------------------------------------------------------------

\* Character classes of the regular expressions: \s, \w, and toLowerCase.
LowerCase == <<"a", "b", "c", "d", "e", "f", "g", "h", "i", "j", "k", "l", "m",
               "n", "o", "p", "q", "r", "s", "t", "u", "v", "w", "x", "y", "z">>
UpperCase == <<"A", "B", "C", "D", "E", "F", "G", "H", "I", "J", "K", "L", "M",
               "N", "O", "P", "Q", "R", "S", "T", "U", "V", "W", "X", "Y", "Z">>
IsSpace(c) == c \in {" ", "\t"}
IsWord(c) == IsDigit(c) \/ c = "_" \/ \E i \in 1..26 : c = LowerCase[i] \/ c = UpperCase[i]
toLowerCase(s) ==
    [i \in 1..Len(s) |->
        IF \E k \in 1..26 : UpperCase[k] = s[i]
        THEN LowerCase[CHOOSE k \in 1..26 : UpperCase[k] = s[i]]
        ELSE s[i]]

\* s has the text t at the 1-based position p.
At(s, p, t) == p >= 1 /\ p + Len(t) - 1 <= Len(s) /\ SubSeq(s, p, p + Len(t) - 1) = t

\* The least member of a non-empty set of positions, and the greatest.
First(S) == CHOOSE i \in S : \A k \in S : i <= k
Last(S) == CHOOSE i \in S : \A k \in S : i >= k

\* The CodeblockParameters a parse starts from.
NoHighlights == [lineNumbers |-> <<>>, plainText |-> <<>>, regularExpressions |-> <<>>]
DefaultParameters ==
    [language |-> <<>>, title |-> <<>>, reference |-> <<>>,
     fold |-> [enabled |-> FALSE, placeholder |-> <<>>],
     lineNumbers |-> [alwaysEnabled |-> FALSE, alwaysDisabled |-> FALSE, offset |-> 0],
     lineUnwrap |-> [alwaysEnabled |-> FALSE, alwaysDisabled |-> FALSE, activeWrap |-> FALSE],
     highlights |-> [default |-> NoHighlights, alternative |-> <<>>],
     ignore |-> FALSE]

\* ---- the parameter strings of a parameter line (lines 224-226) ----

\* (?:ref|reference|title):(?:\[\[.*?\]\]|\[.*?\]\(.+\)) at position p: the
\* length matched, 0 when it does not match. The lazy .*? stops at the
\* earliest closing text, the greedy .+ at the last closing parenthesis.
LinkKeys == {<<"r", "e", "f", ":">>, <<"r", "e", "f", "e", "r", "e", "n", "c", "e", ":">>,
             <<"t", "i", "t", "l", "e", ":">>}
LinkTokenAt(s, p) ==
    IF \A key \in LinkKeys : ~At(s, p, key) THEN 0
    ELSE LET key == CHOOSE k \in LinkKeys : At(s, p, k)
             q == p + Len(key)
             wikiEnds == {j \in (q + 2)..Len(s) : At(s, j, <<"]", "]">>)}
             mdMids == {j \in (q + 1)..Len(s) :
                           /\ At(s, j, <<"]", "(">>)
                           /\ \E k \in (j + 3)..Len(s) : s[k] = ")"}
         IN  IF At(s, q, <<"[", "[">>) /\ wikiEnds # {} THEN First(wikiEnds) + 2 - p
             ELSE IF At(s, q, <<"[">>) /\ mdMids # {}
                  THEN Last({k \in 1..Len(s) : s[k] = ")"}) + 1 - p
             ELSE 0

\* [^\s"']+ at position p: the length of the longest run.
BareRunAt(s, p) ==
    LET stops == {j \in p..Len(s) : IsSpace(s[j]) \/ s[j] \in QuoteChars}
    IN  IF stops = {} THEN Len(s) + 1 - p ELSE First(stops) - p

\* "[^"]*" or '[^']*' at position p.
QuotedAt(s, p) ==
    LET closes == {j \in (p + 1)..Len(s) : s[j] = s[p]}
    IN  IF p <= Len(s) /\ s[p] \in QuoteChars /\ closes # {}
        THEN First(closes) + 1 - p ELSE 0

\* One round of the repeated group: the first alternative that matches.
PieceAt(s, p) ==
    IF p > Len(s) THEN 0
    ELSE IF LinkTokenAt(s, p) > 0 THEN LinkTokenAt(s, p)
    ELSE IF BareRunAt(s, p) > 0 THEN BareRunAt(s, p)
    ELSE QuotedAt(s, p)

\* The position after the longest repetition of the group from p on.
RECURSIVE MatchEnd(_, _)
MatchEnd(s, p) == IF PieceAt(s, p) = 0 THEN p ELSE MatchEnd(s, p + PieceAt(s, p))

\* String.prototype.match with the g flag: every match, left to right.
RECURSIVE ParameterStrings(_, _)
ParameterStrings(s, p) ==
    IF p > Len(s) THEN <<>>
    ELSE IF MatchEnd(s, p) = p THEN ParameterStrings(s, p + 1)
    ELSE <<SubSeq(s, p, MatchEnd(s, p) - 1)>> \o ParameterStrings(s, MatchEnd(s, p))

\* replace(/(?:^,|,$)/g, ""): one comma off the front and one off the end.
StripCommas(s) ==
    LET front == IF s # <<>> /\ Head(s) = "," THEN Tail(s) ELSE s
    IN  IF front # <<>> /\ front[Len(front)] = "," THEN SubSeq(front, 1, Len(front) - 1)
        ELSE front

\* ---- manageTitle, manageReference, manageLink (lines 429-476) ----

\* /(["']?)([^\0x1]+)\1/.exec(s): the second group of the leftmost match, or
\* no match. The class [^\0x1] excludes the NUL character, "x" and "1". At a
\* position the quoted form is tried first, with the longest run that is
\* followed by the same quote; then the form with no quote.
InClass(c) == c \notin {"x", "1"}
QuotedPlain(s) ==
    LET runs(p) == {k \in 1..(Len(s) - p) :
                       /\ \A i \in (p + 1)..(p + k) : InClass(s[i])
                       /\ p + k + 1 <= Len(s) /\ s[p + k + 1] = s[p]}
        bare(p) == {k \in 1..(Len(s) - p + 1) : \A i \in p..(p + k - 1) : InClass(s[i])}
        starts == {p \in 1..Len(s) : InClass(s[p])}
    IN  IF starts = {} THEN [found |-> FALSE, text |-> <<>>]
        ELSE LET p == First(starts)
             IN  IF s[p] \in QuoteChars /\ runs(p) # {}
                 THEN [found |-> TRUE, text |-> SubSeq(s, p + 1, p + Last(runs(p)))]
                 ELSE [found |-> TRUE, text |-> SubSeq(s, p, p + Last(bare(p)) - 1)]

Http == <<"h", "t", "t", "p", ":", "/", "/">>
Https == <<"h", "t", "t", "p", "s", ":", "/", "/">>
NoLink == [found |-> FALSE, title |-> <<>>, reference |-> <<>>]
LinkInfo(title, reference) == [found |-> TRUE, title |-> title, reference |-> reference]

\* /\[\[([^\]|\r\n]+?)(?:\|([^\]|\r\n]+?))?\]\]/.exec(s): the two groups of
\* the leftmost match (the second empty when it took no part).
WikiMatch(s) ==
    LET inName(c) == c \notin {"]", "|"}
        run(p) == LET stops == {j \in p..Len(s) : ~inName(s[j])}
                  IN  IF stops = {} THEN Len(s) + 1 - p ELSE First(stops) - p
        plain(p) == At(s, p, <<"[", "[">>) /\ run(p + 2) >= 1
                    /\ At(s, p + 2 + run(p + 2), <<"]", "]">>)
        piped(p) == /\ At(s, p, <<"[", "[">>) /\ run(p + 2) >= 1
                    /\ At(s, p + 2 + run(p + 2), <<"|">>)
                    /\ run(p + 3 + run(p + 2)) >= 1
                    /\ At(s, p + 3 + run(p + 2) + run(p + 3 + run(p + 2)), <<"]", "]">>)
        starts == {p \in 1..Len(s) : plain(p) \/ piped(p)}
    IN  IF starts = {} THEN [found |-> FALSE, g1 |-> <<>>, g2 |-> <<>>]
        ELSE LET p == First(starts)
                 n1 == run(p + 2)
             IN  [found |-> TRUE, g1 |-> SubSeq(s, p + 2, p + 1 + n1),
                  g2 |-> IF plain(p) THEN <<>>
                         ELSE SubSeq(s, p + 3 + n1, p + 2 + n1 + run(p + 3 + n1))]

\* /\[(.*?)\]\((.+)\)/.exec(s): leftmost opening bracket, earliest "](" that
\* has a closing parenthesis at least two characters on, last closing
\* parenthesis of the string.
MdMatch(s) ==
    LET mids(p) == {j \in (p + 1)..Len(s) :
                       At(s, j, <<"]", "(">>) /\ \E k \in (j + 3)..Len(s) : s[k] = ")"}
        starts == {p \in 1..Len(s) : s[p] = "[" /\ mids(p) # {}}
    IN  IF starts = {} THEN [found |-> FALSE, g1 |-> <<>>, g2 |-> <<>>]
        ELSE LET p == First(starts)
                 j == First(mids(p))
             IN  [found |-> TRUE, g1 |-> SubSeq(s, p + 1, j - 1),
                  g2 |-> SubSeq(s, j + 2, Last({k \in 1..Len(s) : s[k] = ")"}) - 1)]

\* /^(["']?)(https?:\/\/.*)\1$/.exec(s): the second group.
UrlMatch(s) ==
    LET isUrl(t) == StartsWith(t, Http) \/ StartsWith(t, Https)
        inner == SubSeq(s, 2, Len(s) - 1)
    IN  IF Len(s) >= 2 /\ s[1] \in QuoteChars /\ s[Len(s)] = s[1] /\ isUrl(inner)
        THEN [found |-> TRUE, g2 |-> inner]
        ELSE [found |-> isUrl(s), g2 |-> s]

manageLink_m(parameterString) ==
    LET refWikiMatch == WikiMatch(parameterString)
        refMdMatch == MdMatch(parameterString)
        urlMatch == UrlMatch(parameterString)
    IN  IF refMdMatch.found THEN LinkInfo(Trim(refMdMatch.g1), Trim(refMdMatch.g2))
        ELSE IF refWikiMatch.found
        THEN LinkInfo(IF refWikiMatch.g2 # <<>> THEN Trim(refWikiMatch.g2)
                      ELSE Trim(refWikiMatch.g1),
                      Trim(refWikiMatch.g1))
        ELSE IF urlMatch.found THEN LinkInfo(<<"U", "R", "L">>, Trim(urlMatch.g2))
        ELSE NoLink

manageLink(parameterString) ==
    LET refWikiMatch == WikiMatch(parameterString)
        refMdMatch == MdMatch(parameterString)
        urlMatch == UrlMatch(parameterString)
    IN  IF refWikiMatch.found
        THEN LinkInfo(IF refWikiMatch.g2 # <<>> THEN Trim(refWikiMatch.g2)
                      ELSE Trim(refWikiMatch.g1),
                      Trim(refWikiMatch.g1))
        ELSE IF refMdMatch.found THEN LinkInfo(Trim(refMdMatch.g1), Trim(refMdMatch.g2))
        ELSE IF urlMatch.found THEN LinkInfo(<<"U", "R", "L">>, Trim(urlMatch.g2))
        ELSE NoLink

manageTitle(parameterString, params) ==
    LET value == Substring(parameterString, 6)
        titleMatch == QuotedPlain(value)
        titled == IF titleMatch.found
                  THEN [params EXCEPT !.title = Trim(titleMatch.text)] ELSE params
        linkInfo == manageLink(value)
    IN  IF linkInfo.found
        THEN [titled EXCEPT !.title = linkInfo.title, !.reference = linkInfo.reference]
        ELSE titled

manageReference(parameterString, params) ==
    LET value == Substring(parameterString,
                           IF StartsWith(parameterString, <<"r", "e", "f", ":">>)
                              \/ StartsWith(parameterString, <<"r", "e", "f", "=">>)
                           THEN 4 ELSE 10)
        linkInfo == manageLink(value)
    IN  IF linkInfo.found
        THEN [params EXCEPT !.reference = linkInfo.reference,
                            !.title = IF params.title = <<>> THEN linkInfo.title ELSE @]
        ELSE params

\* ---- manageFolding, manageLineNumbering, manageWrapping (lines 478-561) ----

manageFolding(parameterString, params) ==
    IF parameterString = <<"f", "o", "l", "d">>
    THEN [params EXCEPT !.fold = [enabled |-> TRUE, placeholder |-> <<>>]]
    ELSE LET foldPlaceholderMatch == QuotedPlain(Substring(parameterString, 5))
         IN  IF foldPlaceholderMatch.found
             THEN [params EXCEPT !.fold = [enabled |-> TRUE,
                                           placeholder |-> Trim(foldPlaceholderMatch.text)]]
             ELSE params

LineNumbers(alwaysEnabled, alwaysDisabled, offset) ==
    [alwaysEnabled |-> alwaysEnabled, alwaysDisabled |-> alwaysDisabled, offset |-> offset]

manageLineNumbering_m(parameterString, params) ==
    LET value == Substring(parameterString, 3)
    IN  IF value # <<>> /\ AllDigits(value)
        THEN [params EXCEPT !.lineNumbers = LineNumbers(TRUE, FALSE, ParseNat(value) - 1)]
        ELSE IF toLowerCase(value) = <<"t", "r", "u", "e">>
        THEN [params EXCEPT !.lineNumbers = LineNumbers(TRUE, FALSE, 0)]
        ELSE IF toLowerCase(value) = <<"f", "a", "l", "s", "e">>
        THEN [params EXCEPT !.lineNumbers.alwaysDisabled = TRUE]
        ELSE params

manageLineNumbering(parameterString, params) ==
    LET value == Substring(parameterString, 3)
    IN  IF value # <<>> /\ AllDigits(value)
        THEN [params EXCEPT !.lineNumbers = LineNumbers(TRUE, FALSE, ParseNat(value) - 1)]
        ELSE IF toLowerCase(value) = <<"t", "r", "u", "e">>
        THEN [params EXCEPT !.lineNumbers = LineNumbers(TRUE, FALSE, 0)]
        ELSE IF toLowerCase(value) = <<"f", "a", "l", "s", "e">>
        THEN [params EXCEPT !.lineNumbers = LineNumbers(FALSE, TRUE, 0)]
        ELSE params

LineUnwrap(alwaysEnabled, alwaysDisabled, activeWrap) ==
    [alwaysEnabled |-> alwaysEnabled, alwaysDisabled |-> alwaysDisabled,
     activeWrap |-> activeWrap]

manageWrapping(parameterString, params) ==
    LET value == toLowerCase(Substring(parameterString, 7))
    IN  IF parameterString = <<"w", "r", "a", "p">>
        THEN [params EXCEPT !.lineUnwrap = LineUnwrap(FALSE, TRUE, FALSE)]
        ELSE IF parameterString = <<"u", "n", "w", "r", "a", "p">>
        THEN [params EXCEPT !.lineUnwrap = LineUnwrap(TRUE, FALSE, FALSE)]
        ELSE IF value = <<"i", "n", "a", "c", "t", "i", "v", "e">>
        THEN [params EXCEPT !.lineUnwrap = LineUnwrap(TRUE, FALSE, TRUE)]
        ELSE IF value = <<"t", "r", "u", "e">>
        THEN [params EXCEPT !.lineUnwrap = LineUnwrap(TRUE, FALSE, FALSE)]
        ELSE IF value = <<"f", "a", "l", "s", "e">>
        THEN [params EXCEPT !.lineUnwrap = LineUnwrap(FALSE, TRUE, FALSE)]
        ELSE params

\* ---- addHighlights, parseHighlightedLines (lines 563-629) ----

\* parseInt: leading spaces and one sign are skipped, then the leading digits
\* are read; NaN when there is none.
parseInt(s) ==
    LET t == Trim(s)
        u == IF t # <<>> /\ Head(t) \in {"+", "-"} THEN Tail(t) ELSE t
        stops == {j \in 1..Len(u) : ~IsDigit(u[j])}
        digits == IF stops = {} THEN u ELSE SubSeq(u, 1, First(stops) - 1)
    IN  [nan |-> digits = <<>>,
         n |-> IF t # <<>> /\ Head(t) = "-" THEN 0 - ParseNat(digits) ELSE ParseNat(digits)]

\* Set.prototype.add on a set kept in insertion order.
SetAdd(set, x) == IF \E i \in 1..Len(set) : set[i] = x THEN set ELSE Append(set, x)
RECURSIVE SetAddAll(_, _)
SetAddAll(set, xs) == IF xs = <<>> THEN set ELSE SetAddAll(SetAdd(set, Head(xs)), Tail(xs))

\* new RegExp(source) throws for a source that begins with a quantifier.
ValidRegExp(source) == source = <<>> \/ Head(source) \notin {"*", "+", "?"}

\* One highlight rule applied to the three sets. Each RegExp is a new object,
\* so the set of regular expressions keeps every one of them.
highlightRule(h, rule) ==
    LET parts == Split(rule, "-")
        start == parseInt(parts[1])
        end == parseInt(parts[2])
    IN  IF \E i \in 1..(Len(rule) - 2) :
               IsDigit(rule[i]) /\ rule[i + 1] = "-" /\ IsDigit(rule[i + 2])
        THEN IF ~start.nan /\ start.n # 0 /\ ~end.nan /\ end.n # 0 /\ start.n <= end.n
             THEN [h EXCEPT !.lineNumbers =
                       SetAddAll(@, [i \in 1..(end.n - start.n + 1) |-> i - 1 + start.n])]
             ELSE h
        ELSE IF Len(rule) >= 2 /\ Slashed(rule)
        THEN IF ValidRegExp(Unslashed(rule))
             THEN [h EXCEPT !.regularExpressions = Append(@, Unslashed(rule))]
             ELSE h
        ELSE IF \E c \in QuoteChars : HasQuoted(rule, c)
        THEN [h EXCEPT !.plainText = SetAdd(@, SubSeq(rule, 2, Len(rule) - 1))]
        ELSE IF \E i \in 1..Len(rule) : ~IsDigit(rule[i])
        THEN [h EXCEPT !.plainText = SetAdd(@, rule)]
        ELSE IF rule # <<>>
        THEN [h EXCEPT !.lineNumbers = SetAdd(@, ParseNat(rule))]
        ELSE h

RECURSIVE HighlightRules(_, _)
HighlightRules(h, rules) ==
    IF rules = <<>> THEN h ELSE HighlightRules(highlightRule(h, Head(rules)), Tail(rules))

parseHighlightedLines(highlightedLinesString) ==
    HighlightRules(NoHighlights, Split(highlightedLinesString, ","))

\* /^(\w+)[:=](.+)$/.exec(s): the name and the rules.
HighlightMatch(s) ==
    LET stops == {j \in 1..Len(s) : ~IsWord(s[j])}
        j == IF stops = {} THEN 0 ELSE First(stops)
    IN  IF j >= 2 /\ s[j] \in {":", "="} /\ j < Len(s)
        THEN [found |-> TRUE, name |-> SubSeq(s, 1, j - 1), rules |-> Substring(s, j)]
        ELSE [found |-> FALSE, name |-> <<>>, rules |-> <<>>]

\* /^{[\d-,]+}$/.test(s)
IsBraceShorthand(s) ==
    /\ Len(s) >= 3 /\ s[1] = "{" /\ s[Len(s)] = "}"
    /\ \A i \in 2..(Len(s) - 1) : IsDigit(s[i]) \/ s[i] \in {"-", ","}

addHighlights(parameterString, params, theme) ==
    LET highlightMatch == HighlightMatch(parameterString)
        alternative == params.highlights.alternative
    IN  IF highlightMatch.found
        THEN IF highlightMatch.name = <<"h", "l">>
             THEN [params EXCEPT !.highlights.default =
                                     parseHighlightedLines(highlightMatch.rules)]
             ELSE IF highlightMatch.name \in theme
             THEN [params EXCEPT !.highlights.alternative =
                       [name \in DOMAIN alternative \cup {highlightMatch.name} |->
                           IF name = highlightMatch.name
                           THEN parseHighlightedLines(highlightMatch.rules)
                           ELSE alternative[name]]]
             ELSE params
        ELSE IF IsBraceShorthand(parameterString)
        THEN [params EXCEPT !.highlights.default =
                                parseHighlightedLines(SubSeq(parameterString, 2,
                                                             Len(parameterString) - 1))]
        ELSE params

\* ---- parseCodeblockParameterString (lines 407-427) ----

\* /^key[:=]/ and /^key[:=]?/
Keyed(s, key) == StartsWith(s, key) /\ Len(s) > Len(key) /\ s[Len(key) + 1] \in {":", "="}

parseCodeblockParameterString(parameterString, params, theme) ==
    IF parameterString = <<"i", "g", "n", "o", "r", "e">> THEN [params EXCEPT !.ignore = TRUE]
    ELSE IF Keyed(parameterString, <<"t", "i", "t", "l", "e">>) THEN manageTitle(parameterString, params)
    ELSE IF Keyed(parameterString, <<"r", "e", "f">>) \/ Keyed(parameterString, <<"r", "e", "f", "e", "r", "e", "n", "c", "e">>)
         THEN manageReference(parameterString, params)
    ELSE IF StartsWith(parameterString, <<"f", "o", "l", "d">>) THEN manageFolding(parameterString, params)
    ELSE IF Keyed(parameterString, <<"l", "n">>) THEN manageLineNumbering(parameterString, params)
    ELSE IF StartsWith(parameterString, <<"u", "n", "w", "r", "a", "p">>) \/ parameterString = <<"w", "r", "a", "p">>
         THEN manageWrapping(parameterString, params)
    ELSE addHighlights(parameterString, params, theme)

\* ---- parseCodeblockParameters (lines 174-237) ----

\* replace(/^~~~+(?=[^~]|$)/, "") and the same for the other fence character.
RECURSIVE StripFence(_, _)
StripFence(s, c) == IF s # <<>> /\ Head(s) = c THEN StripFence(Tail(s), c) ELSE s

\* /^\{(.+)\} *$/.exec(s): the group, up to the last closing brace that only
\* spaces follow.
RmdMatch(s) ==
    LET t == SubSeq(s, 1, Last({0} \cup {j \in 1..Len(s) : s[j] # " "}))
    IN  IF Len(t) >= 3 /\ t[1] = "{" /\ t[Len(t)] = "}"
        THEN [found |-> TRUE, text |-> SubSeq(t, 2, Len(t) - 1)]
        ELSE [found |-> FALSE, text |-> s]

RECURSIVE ParseEach(_, _, _)
ParseEach(parameterStrings, params, theme) ==
    IF parameterStrings = <<>> THEN params
    ELSE ParseEach(Tail(parameterStrings),
                   parseCodeblockParameterString(StripCommas(Head(parameterStrings)),
                                                 params, theme),
                   theme)

parseCodeblockParameters(parameterLine, theme) ==
    LET fence == IF StartsWith(parameterLine, <<BT, BT, BT>>) THEN BT
                 ELSE IF StartsWith(parameterLine, <<"~", "~", "~">>) THEN "~" ELSE ""
        rmdMatch == RmdMatch(StripFence(parameterLine, fence))
        line == rmdMatch.text
        languageBreak == FirstIndex({i \in 1..Len(line) : line[i] = " "})
        language == toLowerCase(IF languageBreak # -1 THEN SubSeq(line, 1, languageBreak)
                                ELSE line)
        rest == (IF rmdMatch.found THEN <<"t", "i", "t", "l", "e", ":">> ELSE <<>>) \o Substring(line, languageBreak + 1)
    IN  IF fence = "" THEN DefaultParameters
        ELSE IF languageBreak = -1 THEN [DefaultParameters EXCEPT !.language = language]
        ELSE ParseEach(ParameterStrings(rest, 1),
                       [DefaultParameters EXCEPT !.language = language], theme)

\* ---- pluginAdjustParameters, adjustReference, pluginAdjustPreviewCode
\* ---- (lines 239-359), for the languages "reference" and "preview"

\* ref is what getRef returned: its start line, language and external
\* reference, the title (metadata title or base name of the path) and the
\* reference (display URL or file path) it offers.
adjustReference(params, ref) ==
    LET unset == ~params.lineNumbers.alwaysDisabled /\ ~params.lineNumbers.alwaysEnabled
        adjusted ==
            [params EXCEPT
                !.lineNumbers = IF unset THEN [@ EXCEPT !.offset = ref.startLine - 1,
                                                        !.alwaysEnabled = ref.startLine # 1]
                                ELSE @,
                !.title = IF @ = <<>> THEN ref.title ELSE @,
                !.reference = IF @ = <<>> THEN ref.reference ELSE @,
                !.language = ref.language]
    IN  [f \in DOMAIN adjusted \cup {"externalReference"} |->
            IF f = "externalReference" THEN ref.external ELSE adjusted[f]]

\* codePreviewParams is what the code preview plugin returned; lines are the
\* line numbers analyzeHighLightLines gives, title the last part of filePath.
pluginAdjustPreviewCode(params, installed, codePreviewParams) ==
    LET unset == ~params.lineNumbers.alwaysDisabled /\ ~params.lineNumbers.alwaysEnabled
    IN  IF ~installed THEN params
        ELSE [params EXCEPT
                 !.lineNumbers =
                     IF unset
                     THEN [@ EXCEPT !.offset = IF codePreviewParams.start.t = "number"
                                               THEN codePreviewParams.start.n - 1 ELSE @,
                                    !.alwaysEnabled = codePreviewParams.linenumber]
                     ELSE @,
                 !.highlights.default.lineNumbers = SetAddAll(SetAddAll(<<>>, @),
                                                              codePreviewParams.lines),
                 !.title = IF @ = <<>> THEN codePreviewParams.title ELSE @,
                 !.language = codePreviewParams.language]

\* The other adjustments (file include, execute code) apply to other
\* languages or leave a title that is a string as it is.
pluginAdjustParameters(params, env) ==
    IF params.language = <<"r", "e", "f", "e", "r", "e", "n", "c", "e">> THEN adjustReference(params, env.ref)
    ELSE IF params.language = <<"p", "r", "e", "v", "i", "e", "w">>
    THEN pluginAdjustPreviewCode(params, env.installed, env.codePreviewParams)
    ELSE params

\* parseCodeblock without the whitelist test: the parameter line parsed,
\* then adjusted.
parseCodeblock(parameterLine, theme, env) ==
    pluginAdjustParameters(parseCodeblockParameters(parameterLine, theme), env)

\* ---- parameter lines given to the parser ----

\* The decimal text of a number.
RECURSIVE Decimal(_)
Decimal(n) == IF n < 10 THEN <<Digits[n + 1]>> ELSE Decimal(n \div 10) \o <<Digits[(n % 10) + 1]>>

\* The orders of every non-empty subset of a set.
Orders(S) ==
    UNION {{o \in [1..Cardinality(T) -> T] : \A i, j \in 1..Cardinality(T) : o[i] = o[j] => i = j} :
              T \in SUBSET S \ {{}}}

Theme == {<<"e", "r", "r", "o", "r">>}
Python == <<"p", "y", "t", "h", "o", "n">>
Languages == {Python, <<"r", "e", "f", "e", "r", "e", "n", "c", "e">>, <<"p", "r", "e", "v", "i", "e", "w">>}

Refs == {[startLine |-> n, language |-> <<"c">>, title |-> <<"f">>, reference |-> <<"u">>,
          external |-> <<>>] : n \in {1, 3}}
CodePreviews == {[start |-> s, linenumber |-> b, lines |-> <<>>, title |-> <<"f">>,
                  language |-> <<"c">>] : s \in {Absent, Num(2)}, b \in BOOLEAN}
NoEnv == [ref |-> CHOOSE r \in Refs : r.startLine = 1, installed |-> FALSE,
          codePreviewParams |-> CHOOSE c \in CodePreviews : c.start = Absent /\ ~c.linenumber]
Envs(language) ==
    IF language = <<"r", "e", "f", "e", "r", "e", "n", "c", "e">> THEN {[NoEnv EXCEPT !.ref = r] : r \in Refs}
    ELSE IF language = <<"p", "r", "e", "v", "i", "e", "w">>
    THEN {[NoEnv EXCEPT !.installed = TRUE, !.codePreviewParams = c] : c \in CodePreviews}
    ELSE {NoEnv}

\* Highlight tokens: the four rules in every order, in braces and after hl:
HlRules == {<<"2", "-", "4">>, <<"/", "f", "o", "o", ".", "*", "/">>, <<"\"", "b", "a", "r", "\"">>, <<"7">>}
Braced(rules) == <<"{">> \o Join(rules, <<",">>) \o <<"}">>
HlKeyed(rules) == <<"h", "l", ":">> \o Join(rules, <<",">>)
HighlightTokens == {Braced(o) : o \in Orders(HlRules)} \cup {HlKeyed(o) : o \in Orders(HlRules)}

\* Range tokens hl:a-b
MaxLineNumber == 11
RangeRule(a, b) == Decimal(a) \o <<"-">> \o Decimal(b)
RangeTokens == {HlKeyed(<<RangeRule(a, b)>>) : a, b \in 0..MaxLineNumber}

\* Title tokens
TitleChars == {"a", "x", "7", " "}
MaxTitleLen == 3
Titles == SeqsUpTo(TitleChars, MaxTitleLen) \ {<<>>}
TitleForms(T) ==
    {<<"t", "i", "t", "l", "e", ":", "\"">> \o T \o <<"\"">>, <<"t", "i", "t", "l", "e", "=", "'">> \o T \o <<"'">>, <<"t", "i", "t", "l", "e", "=", "\"">> \o T \o <<"\"">>,
     <<"t", "i", "t", "l", "e", ":">> \o T}
TitleTokens == UNION {TitleForms(T) : T \in Titles}

\* Link tokens: a key and a value of one or two pieces
WikiPiped == <<"[", "[", "n", "|", "l", "]", "]">>
WikiPlain == <<"[", "[", "n", "]", "]">>
MdLink == <<"[", "l", "]", "(", "t", ")">>
BareUrl == <<"h", "t", "t", "p", ":", "/", "/", "u">>
LinkPieces == {WikiPiped, WikiPlain, MdLink, BareUrl, <<"p">>, <<"(", "t", ")">>}
LinkValues == LinkPieces \cup {a \o b : a, b \in LinkPieces}
LinkKeyForms == {<<"t", "i", "t", "l", "e", ":">>, <<"r", "e", "f", ":">>, <<"r", "e", "f", "e", "r", "e", "n", "c", "e", "=">>}
EarlierReference == <<"r", "e", "f", ":", "[", "[", "m", "]", "]">>
LinkTokenSeqs ==
    {<<k \o v>> : k \in LinkKeyForms, v \in LinkValues}
        \cup {<<EarlierReference, k \o v>> : k \in LinkKeyForms, v \in LinkValues}

\* Line number tokens, repeated and conflicting
LnTokens == {<<"l", "n", ":", "5">>, <<"l", "n", ":", "t", "r", "u", "e">>, <<"l", "n", ":", "F", "a", "l", "s", "e">>, <<"l", "n", ":", "x">>, <<"l", "n", "=", "0">>}
MaxTokens == 3

\* Single tokens: a stem and an ending
Stems == {<<"f", "o", "l", "d">>, <<"u", "n", "w", "r", "a", "p">>, <<"w", "r", "a", "p">>, <<"l", "n">>, <<"h", "l">>, <<"i", "g", "n", "o", "r", "e">>, <<"t", "i", "t", "l", "e">>, <<"r", "e", "f">>, <<"e", "r", "r", "o", "r">>, <<"f", "o", "o">>, <<"{", "2">>}
Endings == {<<>>, <<"e", "r">>, <<"s">>, <<":", "a">>, <<"=", "7">>, <<",", "3", "}">>}
SingleTokens == {s \o e : s \in Stems, e \in Endings}
SetParameters ==
    [DefaultParameters EXCEPT
        !.title = <<"t">>, !.reference = <<"r">>,
        !.fold = [enabled |-> TRUE, placeholder |-> <<"p">>],
        !.lineNumbers = LineNumbers(TRUE, FALSE, 4),
        !.lineUnwrap = LineUnwrap(TRUE, FALSE, TRUE),
        !.highlights.default.lineNumbers = <<1>>]

ParametersInit ==
    /\ fnResult = NoResult
    /\ fnpc = "ready"
    /\ \/ /\ fnArgs \in [fn : {"parseCodeblock"}, language : {Python},
                         tokens : {<<t>> : t \in HighlightTokens \cup RangeTokens \cup TitleTokens}
                                      \cup LinkTokenSeqs,
                         theme : {Theme}, env : {NoEnv}]
       \/ \E language \in Languages :
              fnArgs \in [fn : {"parseCodeblock"}, language : {language},
                          tokens : SeqsUpTo(LnTokens, MaxTokens),
                          theme : {Theme}, env : Envs(language)]
       \/ fnArgs \in [fn : {"parseCodeblockParameterString"}, parameterString : SingleTokens,
                      params : {DefaultParameters, SetParameters}, theme : {Theme}]

\* The first line of a codeblock with a language and parameter strings.
ParameterLine(language, tokens) ==
    <<"~", "~", "~">> \o language \o (IF tokens = <<>> THEN <<>> ELSE <<" ">> \o Join(tokens, <<" ">>))

CallParseCodeblock ==
    /\ fnArgs.fn = "parseCodeblock"
    /\ Returns(parseCodeblock(ParameterLine(fnArgs.language, fnArgs.tokens),
                              fnArgs.theme, fnArgs.env))

CallParseCodeblockParameterString ==
    /\ fnArgs.fn = "parseCodeblockParameterString"
    /\ Returns(parseCodeblockParameterString(fnArgs.parameterString, fnArgs.params,
                                             fnArgs.theme))

\* ---- parseRefParams on external paths given as text ----

\* url.pathname + url.search of new URL("https://" + hostname + rest) for a
\* rest that begins with "/": url.search is empty when nothing follows the
\* question mark.
PathnameAndSearch(rest) ==
    LET marks == {i \in 1..Len(rest) : rest[i] = "?"}
    IN  IF marks # {} /\ FirstIndex(marks) + 1 = Len(rest)
        THEN SubSeq(rest, 1, Len(rest) - 1)
        ELSE rest

\* new URL(path) as the record parseRefParams reads: the pieces of
\* (url.pathname + url.search).split("/") after the first, empty one.
UrlOf(hostname, rest) ==
    [scheme |-> "https", hostname |-> hostname,
     segs |-> Tail(Split(PathnameAndSearch(rest), "/")), ext |-> ""]

\* The external paths parseRefParams is exercised on.
UrlChars == {"a", "-", "/", "?"}
MaxUrlLen == 3
UrlRests == {<<"/">> \o t : t \in SeqsUpTo(UrlChars, MaxUrlLen)}

IdsInit ==
    /\ fnArgs \in [fn : {"parseRefParams"}, hostname : Hostnames, rest : UrlRests]
    /\ fnResult = NoResult
    /\ fnpc = "ready"

CallParseRefParams ==
    /\ fnArgs.fn = "parseRefParams"
    /\ Returns(parseRefParams([yaml |-> "ok", path |-> UrlOf(fnArgs.hostname, fnArgs.rest),
                               start |-> Absent, end |-> Absent]))

\* ---- parseCodeblockSource call by call: fnArgs.pending holds the
\* arguments of the calls of parseCodeblockSection not yet made, the next
\* one first (the body of an admonition is parsed before the remainder).

SectionsInit ==
    /\ codeSection = <<>>
    /\ admonitions = FALSE
    /\ codeblocks = <<>>
    /\ nested = TRUE
    /\ segpc = "ready"
    /\ fnArgs = NoArgs
    /\ fnResult = NoResult
    /\ fnpc = "idle"

\* parseCodeblockSource is called and makes the outermost call.
parseCodeblockSourceCall ==
    /\ fnpc = "idle"
    /\ \E lines \in SeqsUpTo(LineSet, MaxLines), plugin \in BOOLEAN :
          /\ codeSection' = lines
          /\ admonitions' = plugin
          /\ fnArgs' = [fn |-> "parseCodeblockSection", pending |-> <<lines>>]
    /\ fnpc' = "ready"
    /\ UNCHANGED <<codeblocks, nested, segpc, fnResult, fetchVars, cacheVars>>

\* One call of parseCodeblockSection, up to its recursive calls.
parseCodeblockSectionCall ==
    /\ fnpc = "ready"
    /\ fnArgs.pending # <<>>
    /\ LET sec == Head(fnArgs.pending)
           open == getOpeningLine(sec)
           close == closeDelimiterIndex(sec, open)
           emits == ~admonitions \/ ~IsAdmonitionLine(sec[open + 1])
       IN  IF Len(sec) = 0 \/ open = -1
           THEN /\ fnArgs' = [fnArgs EXCEPT !.pending = Tail(@)]
                /\ UNCHANGED codeblocks
           ELSE /\ codeblocks' = IF emits
                                 THEN Append(codeblocks, GroupSlice(sec, open, close))
                                 ELSE codeblocks
                /\ fnArgs' = [fnArgs EXCEPT !.pending =
                                 (IF emits THEN <<>> ELSE <<BodySlice(sec, open, close)>>)
                                 \o <<RestSlice(sec, open, close)>> \o Tail(@)]
    /\ UNCHANGED <<codeSection, admonitions, nested, segpc, fnResult, fnpc,
                   fetchVars, cacheVars>>

\* The outermost call has returned: parseCodeblockSource computes nested.
parseCodeblockSourceReturn ==
    /\ fnpc = "ready"
    /\ fnArgs.pending = <<>>
    /\ nested' = nestedOf(codeSection, codeblocks)
    /\ segpc' = "done"
    /\ fnpc' = "done"
    /\ UNCHANGED <<codeSection, admonitions, codeblocks, fnArgs, fnResult,
                   fetchVars, cacheVars>>


\* ------------------------------------------------------------------------
\* Specifications
\* ------------------------------------------------------------------------

InitSegmenter == SegInit /\ FetchIdle /\ CacheIdle /\ FnIdle
NextSegmenter == parseCodeblockSource
SpecSegmenter == InitSegmenter /\ [][NextSegmenter]_vars

InitFetch == FetchInit /\ SegIdle /\ CacheIdle /\ FnIdle
NextFetch == FetchRequestOk \/ FetchRequestFails
SpecFetch == InitFetch /\ [][NextFetch]_vars

Init == CacheInit /\ SegIdle /\ FetchIdle /\ FnIdle
Next == CacheNext
Spec == Init /\ [][Next]_vars

InitResolve == ResolveInit /\ SegIdle /\ FetchIdle /\ CacheIdle
NextResolve == CallLocalStorePath
SpecResolve == InitResolve /\ [][NextResolve]_vars

InitLimits == LimitsInit /\ SegIdle /\ FetchIdle /\ CacheIdle
NextLimits == CallGetLineLimits
SpecLimits == InitLimits /\ [][NextLimits]_vars

InitGc == GcInit /\ SegIdle /\ FetchIdle /\ FnIdle
NextGc == GcNext
SpecGc == InitGc /\ [][NextGc]_vars

InitParameters == ParametersInit /\ SegIdle /\ FetchIdle /\ CacheIdle
NextParameters == CallParseCodeblock \/ CallParseCodeblockParameterString
SpecParameters == InitParameters /\ [][NextParameters]_vars

InitIds == IdsInit /\ SegIdle /\ FetchIdle /\ CacheIdle
NextIds == CallParseRefParams
SpecIds == InitIds /\ [][NextIds]_vars

\* The segmenter call by call.
InitSections == SectionsInit /\ FetchIdle /\ CacheIdle
NextSections ==
    parseCodeblockSourceCall \/ parseCodeblockSectionCall \/ parseCodeblockSourceReturn
SpecSections == InitSections /\ [][NextSections]_vars

\* ------------------------------------------------------------------------
\* Properties of the segmenter (checked under SpecSegmenter)
\* ------------------------------------------------------------------------

RECURSIVE Flatten(_)
Flatten(groups) ==
    IF groups = <<>> THEN <<>> ELSE Head(groups) \o Flatten(Tail(groups))

\* No admonition block is involved: the admonition branch cannot be taken.
NoAdmonitionInvolved ==
    ~admonitions \/ \A i \in 1..Len(codeSection) : ~IsAdmonitionLine(codeSection[i])

\* Every opening fence met by a top-level scan has a matching closing fence.
RECURSIVE WellFormed(_)
WellFormed(sec) ==
    LET open == getOpeningLine(sec) IN
    IF open = -1 THEN TRUE
    ELSE LET close == closeDelimiterIndex(sec, open)
         IN  close # -1 /\ WellFormed(SubSeq(sec, open + close + 3, Len(sec)))

\* A group holds one codeblock, closed by the group's last line.
EndsWithItsBlock(g) ==
    LET open == getOpeningLine(g)
    IN  open # -1 /\ closeDelimiterIndex(g, open) = Len(g) - open - 2

\* C8: for a well-formed line sequence without admonitions the emitted groups
\* are disjoint contiguous slices in document order: concatenated they are a
\* prefix of the input, each ends with the closing fence of the one codeblock
\* it holds, and the lines after the last group hold no codeblock. No line is
\* duplicated and no codeblock line is dropped.
C8_GroupsTileInput ==
    (segpc = "done" /\ NoAdmonitionInvolved /\ WellFormed(codeSection)) =>
        LET flat == Flatten(codeblocks) IN
        /\ Len(flat) <= Len(codeSection)
        /\ SubSeq(codeSection, 1, Len(flat)) = flat
        /\ \A k \in 1..Len(codeblocks) : EndsWithItsBlock(codeblocks[k])
        /\ getOpeningLine(SubSeq(codeSection, Len(flat) + 1, Len(codeSection))) = -1

\* A codeblock with a text line before it and a text line after it has been
\* segmented.
C8_Witness ==
    /\ segpc = "done" /\ NoAdmonitionInvolved /\ WellFormed(codeSection)
    /\ Len(codeblocks) = 1
    /\ Len(codeSection) = 4
    /\ codeSection[1] = TextLine /\ codeSection[4] = TextLine

\* C9 (as claimed): every emitted group begins with its opening fence line and
\* ends with its closing fence line. Stated for well-formed input without
\* admonitions, where every group has both fences.
C9_GroupBeginsWithOpeningFence ==
    (segpc = "done" /\ NoAdmonitionInvolved /\ WellFormed(codeSection)) =>
        \A k \in 1..Len(codeblocks) :
            LET g == codeblocks[k] IN
            /\ testOpeningLine(g[1]) # <<>>
            /\ IsClosingLine(g[Len(g)], FenceRun(g[1]))

\* The input is itself one top-level codeblock: its first line is the opening
\* fence and its last line is the first line that closes it.
IsOneCodeblock(sec) ==
    /\ Len(sec) >= 2
    /\ testOpeningLine(sec[1]) # <<>>
    /\ closeDelimiterIndex(sec, 0) = Len(sec) - 2

\* C10 (as claimed): nested is false exactly when the input is itself one
\* top-level codeblock. Stated for well-formed input without admonitions.
C10_NestedIffEmbedded ==
    (segpc = "done" /\ NoAdmonitionInvolved /\ WellFormed(codeSection)) =>
        ((nested = FALSE) <=> IsOneCodeblock(codeSection))

\* ------------------------------------------------------------------------
\* Properties of the fetcher (checked under SpecFetch)
\* ------------------------------------------------------------------------

\* C5 (as claimed): every request of a GitHub fetch carries the fetcher's own
\* Accept and X-GitHub-Api-Version values, whatever headers the caller gave.
C5_GitHubRequiredHeadersKept ==
    (fpc # "idle" /\ IsGitHubHost(fparams.hostname)) =>
        \A i \in 1..Len(fsent) :
            /\ fsent[i].headers["Accept"] = GitHubRequired["Accept"]
            /\ fsent[i].headers["X-GitHub-Api-Version"] = GitHubRequired["X-GitHub-Api-Version"]

\* ------------------------------------------------------------------------
\* Properties of the reference cache (checked under Spec)
\* ------------------------------------------------------------------------

IsExternal(blk) == parseRefParams(blk).err = ""
IdOf(blk) == parseRefParams(blk).external.id

\* A getRef call that has returned a Ref that is not an error callout.
Rendered(t) ==
    /\ tasks[t].kind = "render" /\ tasks[t].pc = "done"
    /\ tasks[t].outcome = "returned" /\ tasks[t].error = ""

\* A getRef call that has finished after fetchExtRef wrote the cache index.
WroteCache(t) ==
    /\ tasks[t].kind = "render" /\ tasks[t].pc = "done"
    /\ "cache" \in tasks[t].wrote

\* The calls of slots t and u are the only calls made, for two documents.
OnlyCalls(t, u) ==
    /\ t # u /\ calls = 2
    /\ tasks[t].doc # tasks[u].doc

Count(s, x) == Cardinality({i \in 1..Len(s) : s[i] = x})

\* C1: after two getRef calls for the same URL from two documents, one
\* completing before the other starts, the cache index has exactly one entry
\* for the id and its sourcePaths lists each of the two documents once.
C1_OneEntryBothDocuments ==
    \A t, u \in TaskIds :
        (/\ OnlyCalls(t, u) /\ Rendered(t) /\ Rendered(u)
         /\ tasks[t].alone /\ tasks[u].alone
         /\ IdOf(tasks[t].blk) = IdOf(tasks[u].blk)) =>
            LET id == IdOf(tasks[t].blk) IN
            /\ Count(CacheIds(cacheFile), id) = 1
            /\ Len(CacheAt(cacheFile, id).sourcePaths) = 2
            /\ Count(CacheAt(cacheFile, id).sourcePaths, tasks[t].doc) = 1
            /\ Count(CacheAt(cacheFile, id).sourcePaths, tasks[u].doc) = 1

\* Both documents have been rendered, b.md first, and nothing else was called.
C1_Witness ==
    /\ OnlyCalls(1, 2) /\ Rendered(1) /\ Rendered(2)
    /\ tasks[1].alone /\ tasks[2].alone
    /\ tasks[1].doc = "b.md"
    /\ IdOf(tasks[1].blk) = IdOf(tasks[2].blk)
    /\ CacheAt(cacheFile, IdOf(tasks[1].blk)).sourcePaths = <<"b.md", "a.md">>

\* The copy of the cache index the call of slot t wrote lacks the edge of
\* the call of slot u: t read the cache file before u wrote it.
ReadBeforeWriteOf(t, u) ==
    ~HasEdge(tasks[t].cache, IdOf(tasks[u].blk), tasks[u].doc)

EdgeOnDisk(t) == HasEdge(cacheFile, IdOf(tasks[t].blk), tasks[t].doc)

\* C2: nothing locks the cache file. When two fetchExtRef calls for two
\* documents both read the cache file before either writes it, the file ends
\* as the copy of the last writer and lacks the edge of the first writer.
C2_LostUpdate ==
    \A t, u \in TaskIds :
        (/\ OnlyCalls(t, u) /\ WroteCache(t) /\ WroteCache(u)
         /\ ReadBeforeWriteOf(t, u) /\ ReadBeforeWriteOf(u, t)) =>
            /\ cacheFile \in {tasks[t].cache, tasks[u].cache}
            /\ ~(EdgeOnDisk(t) /\ EdgeOnDisk(u))

\* Two calls for different ids, both read before either wrote, both returned
\* their Ref, and the edge of the call of slot 1 is not in the cache file.
C2_Witness ==
    /\ OnlyCalls(1, 2) /\ Rendered(1) /\ WroteCache(1) /\ WroteCache(2)
    /\ ReadBeforeWriteOf(1, 2) /\ ReadBeforeWriteOf(2, 1)
    /\ IdOf(tasks[1].blk) # IdOf(tasks[2].blk)
    /\ ~EdgeOnDisk(1) /\ EdgeOnDisk(2)

\* A reference block of document d points at the id.
References(vault, d, id) ==
    /\ vault[d].exists
    /\ \E i \in 1..Len(vault[d].blocks) :
          IsExternal(vault[d].blocks[i]) /\ IdOf(vault[d].blocks[i]) = id

\* The call of slot t ends with this step.
Ends(t) == Running(t) /\ tasks'[t].pc = "done"

\* C3 (as claimed): a garbage collection that runs with no other call in
\* flight, after calls whose cache writes all succeeded, ends with every id that no document references absent from the
\* cache index and its content and metadata files deleted, and with every
\* remaining id listing at least one document, each of which references it.
C3_GcPrunesUnreferenced ==
    [][\A t \in TaskIds :
          (/\ tasks[t].kind = "clean" /\ tasks[t].alone /\ Ends(t)
           /\ \A u \in TaskIds : tasks[u].error # CacheWriteError) =>
              /\ \A id \in AllIds :
                    (\A d \in Docs : ~References(docs, d, id)) =>
                        /\ ~CacheHas(cacheFile', id)
                        /\ files'[id] = NoFile
                        /\ metas'[id] = NoFile
              /\ \A i \in 1..Len(cacheFile') :
                    /\ cacheFile'[i].sourcePaths # <<>>
                    /\ \A k \in 1..Len(cacheFile'[i].sourcePaths) :
                          References(docs, cacheFile'[i].sourcePaths[k], cacheFile'[i].id)]_vars

\* C4 (as claimed): a refresh that runs with no other call in flight, whose
\* requests are all answered and which has overwritten the content and the
\* metadata of a reference, writes the cache index and then calls
\* renderReadingView, also when the id of a reference is not in the cache.
C4_RefreshStoresEveryReference ==
    \A t \in TaskIds :
        (/\ tasks[t].kind = "update" /\ tasks[t].pc = "done" /\ tasks[t].alone
         /\ {"content", "meta"} \subseteq tasks[t].wrote
         /\ tasks[t].error \notin {RequestError, InvalidGitHubUrl}) =>
            /\ tasks[t].outcome = "returned"
            /\ "cache" \in tasks[t].wrote

\* C6: a getRef call whose request fails sent each request of the fetch at
\* most once, the failing one last, returned the error that wraps the cause,
\* and wrote neither the content file nor the metadata file nor the cache
\* index: when it is the only call made, all three are as at the start.
C6_FailedFetchWritesNothing ==
    \A t \in TaskIds :
        (tasks[t].kind = "render" /\ tasks[t].pc = "done" /\ tasks[t].error = RequestError) =>
            /\ tasks[t].reqs \in 1..Len(PlanOf(ParamsOf(tasks[t])))
            /\ tasks[t].wrote = {}
            /\ calls = 1 =>
                  /\ files = [id \in AllIds |-> NoFile]
                  /\ metas = [id \in AllIds |-> NoFile]
                  /\ cacheFile = <<>>

\* The second request of a GitHub fetch failed in the only call made.
C6_Witness ==
    /\ calls = 1 /\ tasks[1].kind = "render" /\ tasks[1].pc = "done"
    /\ tasks[1].error = RequestError
    /\ tasks[1].reqs = 2

\* C7: getRef never throws: a call that met an error returned the Ref of the
\* catch block, an error callout with the message of the error.
C7_GetRefNeverThrows ==
    \A t \in TaskIds :
        (tasks[t].kind = "render" /\ tasks[t].pc = "done") =>
            /\ tasks[t].outcome = "returned"
            /\ tasks[t].error # "" => tasks[t].result = ErrorRef(tasks[t].error)
            /\ tasks[t].error = "" => tasks[t].result.external # <<>>

\* A call returned an error callout after its content file had been fetched.
C7_Witness ==
    \E t \in TaskIds :
        /\ tasks[t].kind = "render" /\ tasks[t].pc = "done"
        /\ tasks[t].error \notin {"", RequestError}
        /\ "content" \in tasks[t].wrote
        /\ tasks[t].result = ErrorRef(tasks[t].error)

\* ------------------------------------------------------------------------
\* Properties of the path resolver (checked under SpecResolve)
\* ------------------------------------------------------------------------

\* The path after a leading "./" is dropped.
Bare(path) == IF StartsWith(path, <<".", "/">>) THEN Substring(path, 2) ELSE path

\* The number of leading "../" of a path.
RECURSIVE Ups(_)
Ups(path) == IF StartsWith(path, <<".", ".", "/">>) THEN 1 + Ups(Substring(path, 3)) ELSE 0

\* The directories of the source document.
DirsOf(sourcePath) == SubSeq(Split(sourcePath, "/"), 1, Len(Split(sourcePath, "/")) - 1)

\* C11 (as claimed): for a path that is no http(s) URL the resolver returns
\* the storePath "p" for "@/p"; p joined to the directory of the source
\* document for "./p" and for a bare relative p, one directory less for each
\* leading "../", the outside-vault error for one "../" too many; and the
\* use-"@/" error for a leading "/".
C11_LocalPathResolved ==
    (fnpc = "done" /\ fnArgs.fn = "localStorePath" /\ fnArgs.path # <<>>) =>
        LET path == fnArgs.path
            dirs == DirsOf(fnArgs.sourcePath)
            rest == Bare(path)
            ups == Ups(rest)
        IN  /\ StartsWith(path, LOCAL_PREFIX) =>
                  fnResult = [err |-> "", storePath |-> Substring(path, 2)]
            /\ StartsWith(path, <<"/">>) => fnResult = Thrown(UseLocalPrefix)
            /\ (path[1] = "p" \/ StartsWith(path, <<".", "/">>)) =>
                  IF ups > Len(dirs) THEN fnResult = Thrown(OutsideVault)
                  ELSE /\ fnResult.err = ""
                       /\ ups = 0 =>
                             fnResult.storePath =
                                 normalizePath(Join(Append(dirs, rest), <<"/">>))

\* ---- claims about getLineIdentifier and getLineLimits ----

IsSlashedRaw(x) == x.t = "string" /\ Slashed(x.s)
IsOffsetRaw(x) == x.t = "string" /\ StartsWith(x.s, <<"+">>)
MatchesRaw(x, line) == RegExpTest(SubSeq(x.s, 2, Len(x.s) - 1), line)
OffsetOfRaw(x) == ParseNat(Tail(x.s))

\* C12: with start '/R/' and end '+N' the section runs from the first line
\* matching R through the line N lines after it, and the reported start line
\* is the 1-based number of the matching line; numeric limits with the start
\* after the end give the start-after-end error.
C12_RegexStartOffsetEnd ==
    (fnpc = "done" /\ fnArgs.fn = "getLineLimits") =>
        /\ (/\ IsSlashedRaw(fnArgs.start) /\ IsOffsetRaw(fnArgs.end)
            /\ \E i \in 1..Len(fnArgs.lines) : MatchesRaw(fnArgs.start, fnArgs.lines[i]))
           => LET first == FirstIndex({i \in 1..Len(fnArgs.lines) :
                                          MatchesRaw(fnArgs.start, fnArgs.lines[i])})
              IN  fnResult = [err |-> "", startLine |-> first + 1,
                              codeSection |-> Slice(fnArgs.lines, first,
                                                    first + OffsetOfRaw(fnArgs.end) + 1)]
        /\ (/\ fnArgs.start.t = "number" /\ fnArgs.end.t = "number"
            /\ fnArgs.start.n > fnArgs.end.n)
           => fnResult = Thrown("Specified Start line is after the specified End line")

\* ---- claims about the codeblock parameters ----

Parsed == fnpc = "done" /\ fnArgs.fn = "parseCodeblock"
SetOf(seq) == {seq[i] : i \in 1..Len(seq)}
AllFour(o) == Len(o) = 4 /\ SetOf(o) = HlRules
TheThreeSets(h) ==
    /\ SetOf(h.lineNumbers) = {2, 3, 4, 7}
    /\ SetOf(h.plainText) = {<<"b", "a", "r">>}
    /\ h.regularExpressions = <<<<"f", "o", "o", ".", "*">>>>

\* C13: the four rules 2-4, /foo.*/, "bar", 7 written in braces, in any
\* order, parse to default highlights with line numbers {2,3,4,7}, plain
\* text {"bar"} and the one regular expression foo.*
C13_BraceSpecParsed ==
    (Parsed /\ \E o \in Orders(HlRules) : AllFour(o) /\ fnArgs.tokens = <<Braced(o)>>)
        => TheThreeSets(fnResult.highlights.default)

QuotedForms(T) == TitleForms(T) \ {<<"t", "i", "t", "l", "e", ":">> \o T}

\* C14: for a text T of letters, digits and spaces the tokens title:"T",
\* title='T' and title="T" set the title to T without its surrounding
\* spaces, and for a T without spaces the token title:T sets it to T.
C14_TitleIsTheText ==
    Parsed => \A T \in Titles :
        /\ fnArgs.tokens \in {<<t>> : t \in QuotedForms(T)} => fnResult.title = Trim(T)
        /\ (fnArgs.tokens = <<<<"t", "i", "t", "l", "e", ":">> \o T>> /\ ~Includes(T, " ")) => fnResult.title = T

\* The last token of a call is a key followed by a value; Before is the
\* reference the tokens ahead of it left.
LinkCall(k, v) ==
    /\ Parsed
    /\ fnArgs.tokens \in {<<k \o v>>, <<EarlierReference, k \o v>>}
Before == IF Len(fnArgs.tokens) = 2 THEN <<"m">> ELSE <<>>
WikiPieces == {WikiPiped, WikiPlain}
Holds(v, pieces) == v \in pieces \/ \E a, b \in LinkPieces : v = a \o b /\ (a \in pieces \/ b \in pieces)
TitleKey == <<"t", "i", "t", "l", "e", ":">>

\* C15: a link value is read as a wiki link first, then as a markdown link,
\* then as a bare URL: [[n|l]] gives title l and reference n, [[n]] gives
\* both n, [l](t) gives title l and reference t, a URL gives title URL and
\* the URL as reference, and a value of none of the forms leaves the
\* reference as it was.
C15_LinkFormsInOrder ==
    \A k \in LinkKeyForms, v \in LinkValues : LinkCall(k, v) =>
        /\ Holds(v, WikiPieces) => fnResult.reference = <<"n">>
        /\ (Holds(v, WikiPieces) /\ k = TitleKey) =>
               fnResult.title = IF Holds(v, {WikiPiped}) /\ v # WikiPlain \o WikiPiped
                                THEN <<"l">> ELSE <<"n">>
        /\ (Holds(v, {MdLink}) /\ ~Holds(v, WikiPieces) /\ k = TitleKey) => fnResult.title = <<"l">>
        /\ v = MdLink => fnResult.reference = <<"t">>
        /\ v = BareUrl => fnResult.reference = BareUrl
        /\ (v = BareUrl /\ k = TitleKey) => fnResult.title = <<"U", "R", "L">>
        /\ ~Holds(v, WikiPieces \cup {MdLink, BareUrl}) => fnResult.reference = Before

\* A value that is both a wiki link and the start of a markdown link was
\* read as the wiki link.
C15_Witness ==
    /\ LinkCall(TitleKey, WikiPlain \o <<"(", "t", ")">>)
    /\ fnResult.title = <<"n">> /\ fnResult.reference = <<"n">>

\* C16: in the parameters of every parsed and adjusted codeblock, whatever
\* the ln: tokens and whatever the reference or the preview plugin reports,
\* line numbers are not both always enabled and always disabled.
C16_LineNumbersNotBoth ==
    Parsed => ~(fnResult.lineNumbers.alwaysEnabled /\ fnResult.lineNumbers.alwaysDisabled)

\* Conflicting ln: tokens on a reference block that starts at line 3: the
\* last token decided and the adjustment left it alone.
C16_Witness ==
    /\ Parsed
    /\ fnArgs.tokens = <<<<"l", "n", ":", "5">>, <<"l", "n", ":", "F", "a", "l", "s", "e">>>>
    /\ fnArgs.language = <<"r", "e", "f", "e", "r", "e", "n", "c", "e">> /\ fnArgs.env.ref.startLine = 3
    /\ fnResult.lineNumbers = LineNumbers(FALSE, TRUE, 0)

\* The forms of a parameter string that the parser knows.
Begins(tok, key) == StartsWith(tok, key \o <<":">>) \/ StartsWith(tok, key \o <<"=">>)
Recognized(tok, theme) ==
    \/ tok \in {<<"i", "g", "n", "o", "r", "e">>, <<"f", "o", "l", "d">>, <<"w", "r", "a", "p">>, <<"u", "n", "w", "r", "a", "p">>}
    \/ \E key \in {<<"t", "i", "t", "l", "e">>, <<"r", "e", "f">>, <<"r", "e", "f", "e", "r", "e", "n", "c", "e">>, <<"f", "o", "l", "d">>, <<"l", "n">>, <<"u", "n", "w", "r", "a", "p">>} : Begins(tok, key)
    \/ \E name \in theme \cup {<<"h", "l">>} : Begins(tok, name) /\ Len(tok) > Len(name) + 1
    \/ /\ Len(tok) >= 3 /\ Head(tok) = "{" /\ tok[Len(tok)] = "}"
       /\ \A i \in 2..(Len(tok) - 1) : IsDigit(tok[i]) \/ tok[i] \in {"-", ","}

\* C17: a parameter string of none of the known forms leaves every field of
\* the parameters as it was.
C17_UnknownTokenIgnored ==
    (/\ fnpc = "done" /\ fnArgs.fn = "parseCodeblockParameterString"
     /\ ~Recognized(fnArgs.parameterString, fnArgs.theme))
        => fnResult = fnArgs.params

\* C18: the rule a-b adds the line numbers a, a+1, ..., b when a <= b and
\* no line number when a > b, for all non-negative a and b.
C18_RangeAddsItsLines ==
    \A a, b \in 0..MaxLineNumber :
        (Parsed /\ fnArgs.tokens = <<HlKeyed(<<RangeRule(a, b)>>)>>)
            => SetOf(fnResult.highlights.default.lineNumbers) = IF a <= b THEN a..b ELSE {}

\* ---- claims about renders of stored content and about what garbage
\* ---- collection keeps

AfterExists == {"read_content", "read_meta", "read_cache", "write_cache",
                "exists_store", "read_store"}

\* C19: a getRef call that finds the content file of its id on disk goes on
\* to read it and sends no request, neither then nor later in the call.
C19_StoredContentNoRequest ==
    [][\A t \in TaskIds :
          LET T == tasks[t]
              stepped == tasks'[t].pc # T.pc
          IN  /\ (/\ T.kind = "render" /\ T.pc = "exists" /\ stepped
                  /\ files[ParamsOf(T).id] # NoFile)
                 => tasks'[t].pc = "read_content" /\ tasks'[t].reqs = 0
              /\ (T.kind = "render" /\ T.pc \in AfterExists)
                 => tasks'[t].reqs = T.reqs /\ tasks'[t].pc \notin {"request", "write_content"}]_vars

\* X was fetched by a render from one document; a later render of X from
\* the other document returned its section without a request.
C19_Witness ==
    /\ Rendered(1) /\ Rendered(2)
    /\ tasks[1].blk = BlkX /\ tasks[2].blk = BlkX /\ tasks[1].doc # tasks[2].doc
    /\ tasks[1].reqs = 1 /\ tasks[1].error = ""
    /\ tasks[2].reqs = 0 /\ tasks[2].error = "" /\ tasks[2].wrote \subseteq {"cache"}

\* A document among the sourcePaths of the id on disk still references it.
StillUsed(id) ==
    /\ CacheHas(cacheFile, id)
    /\ \E d \in SetOf(CacheAt(cacheFile, id).sourcePaths) : References(docs, d, id)

\* A step of a garbage collection that no other call has run beside.
GcStep(t) ==
    /\ tasks[t].kind = "clean" /\ Running(t) /\ tasks[t].alone
    /\ tasks'[t] # tasks[t] /\ tasks'[t].alone

IsTextAnchor(x) == x.t = "string" /\ ~IsSlashedRaw(x) /\ ~IsOffsetRaw(x) /\ ~AllDigits(x.s)
AnchorText(x) == IF x.s[1] \in QuoteChars THEN SubSeq(x.s, 2, Len(x.s) - 1) ELSE x.s
AnchorHits(x) ==
    {i \in 1..Len(fnArgs.lines) :
        \E p \in 1..Len(fnArgs.lines[i]) :
            SubSeq(fnArgs.lines[i], p, p + Len(AnchorText(x)) - 1) = AnchorText(x)}

\* C21: with text anchors, a start that matches a line and an end that
\* matches none gives 'End line could not be found', a start that matches no
\* line gives 'Start line could not be found', and the start-after-end error
\* is given only when both were found and the start lies after the end.
C21_EachFailureItsOwnError ==
    (/\ fnpc = "done" /\ fnArgs.fn = "getLineLimits"
     /\ IsTextAnchor(fnArgs.start) /\ IsTextAnchor(fnArgs.end))
        => LET starts == AnchorHits(fnArgs.start)
               ends == AnchorHits(fnArgs.end)
           IN  /\ (starts # {} /\ ends = {}) => fnResult = Thrown("End line could not be found")
               /\ starts = {} => fnResult = Thrown("Start line could not be found")
               /\ fnResult = Thrown("Specified Start line is after the specified End line")
                      => starts # {} /\ ends # {} /\ First(starts) > First(ends)

\* ---- claims about the calls of parseCodeblockSection (SpecSections) ----

\* The arguments of the recursive calls the current call makes.
CalledWith ==
    SubSeq(fnArgs'.pending, 1, Len(fnArgs'.pending) - Len(fnArgs.pending) + 1)

\* A bound on the number of calls still to be made: every pending call on
\* n lines counts 2n + 1.
RECURSIVE CallsBound(_)
CallsBound(pending) ==
    IF pending = <<>> THEN 0
    ELSE 2 * Len(Head(pending)) + 1 + CallsBound(Tail(pending))

\* C22: every recursive call of parseCodeblockSection receives a strictly
\* shorter line sequence than its caller, and the segmenter terminates on
\* every input, unclosed fences and nested ad- blocks included: each call
\* lowers the bound on the calls still to be made.
C22_SegmenterTerminates ==
    [][(fnpc = "ready" /\ fnArgs.pending # <<>>)
          => /\ \A i \in 1..Len(CalledWith) :
                    Len(CalledWith[i]) < Len(Head(fnArgs.pending))
             /\ CallsBound(fnArgs'.pending) < CallsBound(fnArgs.pending)]_vars

\* An admonition block whose body opens a fence that is never closed has
\* been segmented with the admonition plugin present.
C22_Witness ==
    /\ segpc = "done"
    /\ admonitions
    /\ codeSection = <<AdFence, Tilde3, Fence3>>
    /\ codeblocks = << <<Tilde3>> >>

\* ---- claims about the ids of external references (SpecIds) ----

\* C23: two external URLs that differ in hostname, path or query never get
\* the same id (nor, with it, the same stored content file) from
\* parseRefParams.
C23_DistinctUrlsDistinctIds ==
    (fnpc = "done" /\ fnArgs.fn = "parseRefParams")
        => \A h \in Hostnames, r \in UrlRests :
              LET other == parseRefParams([yaml |-> "ok", path |-> UrlOf(h, r),
                                           start |-> Absent, end |-> Absent])
              IN  other.path # fnResult.path
                      => /\ other.external.id # fnResult.external.id
                         /\ other.storePath # fnResult.storePath

\* ---- claims about the cache index and the stored files (Spec) ----

\* C24: in every reachable state, the await points of renders running beside
\* a garbage collection included, every id of the persisted cache index has
\* its content file on disk.
C24_CachedIdsHaveContent ==
    \A i \in 1..Len(cacheFile) : files[cacheFile[i].id] # NoFile

====
